---------------------------- MODULE Spec2Model ----------------------------
(***************************************************************************)
(* Model of the jruby-launcher launch-option resolution engine:            *)
(*   - OsStringExt (src/src/os_string_ext.rs): split_at, starts_with,      *)
(*     split_ascii_whitespace;                                             *)
(*   - LaunchOptions::parse (src/src/launch_options.rs);                   *)
(*   - Environment::determine_jruby_executable / derive_home_from_argv0    *)
(*     (src/src/environment.rs), find_from_path (src/src/file_helper.rs),  *)
(*     and the home assignment in launch_options::new.                     *)
(*                                                                         *)
(* An OsString is a sequence of code units, each a one-character string;   *)
(* the two halves of a surrogate pair are the units HiSurrogate and        *)
(* LoSurrogate.  A path is a record [abs, comps].  Option<T> is <<>> for   *)
(* None and <<x>> for Some(x).                                             *)
(***************************************************************************)
EXTENDS Integers, Sequences, FiniteSets, TLC

VARIABLES
    env,        \* Environment: the snapshot taken by Environment::from_env
    options,    \* LaunchOptions: the accumulator built by launch_options::new
    pos,        \* parse: 1-based index of the token `args.next()` yields next
    pc,         \* position inside launch_options::new / the iterator driver
    err,        \* the message of the LaunchError returned, "" if none
    fs,         \* the paths for which the existence test answers true
    exe_path,   \* what process_path::get_executable_path() answers
    dir,        \* determine_jruby_executable: the candidate / returned path
    vec,        \* OsWhitespaceSplitIter.vec / OsSplitIter.vec
    i,          \* OsWhitespaceSplitIter.i / OsSplitIter.i
    items,      \* what the iterator has yielded so far
    separator,  \* OsSplitIter.separator
    os          \* what the operating system holds and answers beyond path
                \* existence: file contents, time stamps, the logger, the
                \* child process

vars == <<env, options, pos, pc, err, fs, exe_path, dir, vec, i, items, separator, os>>

---------------------------------------------------------------------------
(* Bounds of the model *)

\* longest argument vector (after argv0) drawn from the whole token pool
MaxArgs == 2
\* longest argument vector (after argv0) drawn from the core token pool
MaxCoreArgs == 3
\* longest string handed to split_ascii_whitespace
MaxLen == 4

---------------------------------------------------------------------------
(* Option<T> *)

None == <<>>
Some(x) == <<x>>
IsSome(o) == o # <<>>
Unwrap(o) == o[1]

---------------------------------------------------------------------------
(* String literals of the source, as sequences of code units *)

DashDash == <<"-", "-">>
Xfork_java == <<"-", "X", "f", "o", "r", "k", "-", "j", "a", "v", "a">>
Xcommand == <<"-", "X", "c", "o", "m", "m", "a", "n", "d">>
Xnobootclasspath == <<"-", "X", "n", "o", "b", "o", "o", "t", "c", "l", "a", "s", "s", "p", "a", "t", "h">>
Xtrace == <<"-", "X", "t", "r", "a", "c", "e">>
Xbootclass == <<"-", "X", "b", "o", "o", "t", "c", "l", "a", "s", "s">>
Xjdkhome == <<"-", "X", "j", "d", "k", "h", "o", "m", "e">>
Xcp_p == <<"-", "X", "c", "p", ":", "p">>
Xcp_a == <<"-", "X", "c", "p", ":", "a">>
Xversion == <<"-", "X", "v", "e", "r", "s", "i", "o", "n">>
Xhelp == <<"-", "X", "h", "e", "l", "p">>
DashX == <<"-", "X">>
Xproperties == <<"-", "X", "p", "r", "o", "p", "e", "r", "t", "i", "e", "s">>
J_cp == <<"-", "J", "-", "c", "p">>
J_classpath == <<"-", "J", "-", "c", "l", "a", "s", "s", "p", "a", "t", "h">>
Server == <<"-", "-", "s", "e", "r", "v", "e", "r">>
Client == <<"-", "-", "c", "l", "i", "e", "n", "t">>
Dev == <<"-", "-", "d", "e", "v">>
Sample == <<"-", "-", "s", "a", "m", "p", "l", "e">>
Manage == <<"-", "-", "m", "a", "n", "a", "g", "e">>
Headless == <<"-", "-", "h", "e", "a", "d", "l", "e", "s", "s">>
Ng == <<"-", "-", "n", "g">>
NgServer == <<"-", "-", "n", "g", "-", "s", "e", "r", "v", "e", "r">>
NoBootclasspath == <<"-", "-", "n", "o", "-", "b", "o", "o", "t", "c", "l", "a", "s", "s", "p", "a", "t", "h">>
Jea == <<"-", "J", "e", "a">>
Cache == <<"-", "-", "c", "a", "c", "h", "e">>
NoCache == <<"-", "-", "n", "o", "c", "a", "c", "h", "e">>
RmCache == <<"-", "-", "r", "m", "c", "a", "c", "h", "e">>
LogCache == <<"-", "-", "l", "o", "g", "c", "a", "c", "h", "e">>
NoPreamble == <<"-", "D", "j", "r", "u", "b", "y", ".", "l", "a", "u", "n", "c", "h", "e", "r", ".", "n", "o", "p", "r", "e", "a", "m", "b", "l", "e", "=", "t", "r", "u", "e">>
DashDashProperties == <<"-", "-", "p", "r", "o", "p", "e", "r", "t", "i", "e", "s">>
DashServer == <<"-", "s", "e", "r", "v", "e", "r">>
DashClient == <<"-", "c", "l", "i", "e", "n", "t">>
TieredCompilation == <<"-", "X", "X", ":", "+", "T", "i", "e", "r", "e", "d", "C", "o", "m", "p", "i", "l", "a", "t", "i", "o", "n">>
TieredStopAtLevel == <<"-", "X", "X", ":", "T", "i", "e", "r", "e", "d", "S", "t", "o", "p", "A", "t", "L", "e", "v", "e", "l", "=", "1">>
CompileModeOff == <<"-", "D", "j", "r", "u", "b", "y", ".", "c", "o", "m", "p", "i", "l", "e", ".", "m", "o", "d", "e", "=", "O", "F", "F">>
InvokedynamicFalse == <<"-", "D", "j", "r", "u", "b", "y", ".", "c", "o", "m", "p", "i", "l", "e", ".", "i", "n", "v", "o", "k", "e", "d", "y", "n", "a", "m", "i", "c", "=", "f", "a", "l", "s", "e">>
Xprof == <<"-", "X", "p", "r", "o", "f">>
JmxRemote == <<"-", "D", "c", "o", "m", ".", "s", "u", "n", ".", "m", "a", "n", "a", "g", "e", "m", "e", "n", "t", ".", "j", "m", "x", "r", "e", "m", "o", "t", "e">>
ManagementEnabled == <<"-", "D", "j", "r", "u", "b", "y", ".", "m", "a", "n", "a", "g", "e", "m", "e", "n", "t", ".", "e", "n", "a", "b", "l", "e", "d", "=", "t", "r", "u", "e">>
AwtHeadless == <<"-", "D", "j", "a", "v", "a", ".", "a", "w", "t", ".", "h", "e", "a", "d", "l", "e", "s", "s", "=", "t", "r", "u", "e">>
NGServerClass == <<"c", "o", "m", "/", "m", "a", "r", "t", "i", "a", "n", "s", "o", "f", "t", "w", "a", "r", "e", "/", "n", "a", "i", "l", "g", "u", "n", "/", "N", "G", "S", "e", "r", "v", "e", "r">>
DashEa == <<"-", "e", "a">>
DjrubyDot == <<"-", "D", "j", "r", "u", "b", "y", ".">>
LitXss == <<"x", "s", "s">>
LitDashJ == <<"-", "J">>
SmallX == <<"-", "x">>
Foo == <<"f", "o", "o">>
OutLog == <<"o", "u", "t", ".", "l", "o", "g">>
Xfoo == <<"-", "X", "f", "o", "o">>
Xss1m == <<"-", "X", "s", "s", "1", "m">>
Xxss1m == <<"-", "X", "x", "s", "s", "1", "m">>
XFoo == <<"-", "X", "F", "o", "o">>
Jfoo == <<"-", "J", "f", "o", "o">>
Xmx1g == <<"-", "X", "m", "x", "1", "g">>
Xss4m == <<"-", "X", "s", "s", "4", "m">>
OptsAB == <<"-", "X", "a", " ", "-", "X", "b">>
OptsW == <<"-", "w", " ">>

\* the halves of a surrogate pair (one character outside the BMP is two units)
HiSurrogate == "<D83D>"
LoSurrogate == "<DE00>"
\* an argument whose second character lies outside the BMP
AEmojiB == <<"a", HiSurrogate, LoSurrogate, "b">>

---------------------------------------------------------------------------
(* OsStringExt, src/src/os_string_ext.rs *)

\* OsStr::len(): the length in bytes of the internal encoding (a surrogate
\* pair is one 4-byte character, so each half counts 2)
RECURSIVE OsLen(_)
OsLen(s) ==
    IF s = <<>> THEN 0
    ELSE (IF Head(s) \in {HiSurrogate, LoSurrogate} THEN 2 ELSE 1) + OsLen(Tail(s))

\* OsStr::to_str().is_some(): no unpaired surrogate
ValidUnicode(s) ==
    \A k \in 1..Len(s) :
        /\ s[k] = HiSurrogate => (k < Len(s) /\ s[k + 1] = LoSurrogate)
        /\ s[k] = LoSurrogate => (k > 1 /\ s[k - 1] = HiSurrogate)

\* OsStringExt::split_at(index): index counts code units
split_at(s, index) ==
    IF index >= Len(s) THEN <<s, <<>>>>
    ELSE <<SubSeq(s, 1, index), SubSeq(s, index + 1, Len(s))>>

\* OsStringExt::starts_with(string)
starts_with(s, string) ==
    /\ Len(string) <= Len(s)
    /\ SubSeq(s, 1, Len(string)) = string

\* TAB | NEWLINE | LINEFEED | RETURN | SPACE
is_whitespace(b) == b \in {"\t", "\n", "\f", "\r", " "}

\* OsWhitespaceSplitIter::next on (vec, i): [some, item, i].  Indices are
\* 0-based as in the source; unit k of v is v[k + 1].
WsNext(v, at) ==
    LET length == Len(v)
        nonws  == {k \in at..(length - 1) : ~is_whitespace(v[k + 1])}
        \* first skip_while: start_index is the last index its closure saw
        start_index == IF nonws = {} THEN length - 1
                       ELSE CHOOSE k \in nonws : \A m \in nonws : k <= m
        ws     == {k \in start_index..(length - 1) : is_whitespace(v[k + 1])}
        \* second skip_while: end_index is the last index its closure saw
        end_index == IF nonws = {} THEN at
                     ELSE IF ws = {} THEN length - 1
                     ELSE CHOOSE k \in ws : \A m \in ws : k <= m
        end_final == IF end_index + 1 >= length THEN length ELSE end_index
    IN  IF at >= length THEN [some |-> FALSE, item |-> <<>>, i |-> at]
        ELSE IF start_index + 1 >= length THEN [some |-> FALSE, item |-> <<>>, i |-> at]
        ELSE [some |-> TRUE,
              item |-> SubSeq(v, start_index + 1, end_final),
              i    |-> end_final + 1]

\* Iterator::collect() over split_ascii_whitespace()
RECURSIVE WsCollect(_, _)
WsCollect(v, at) ==
    LET r == WsNext(v, at)
    IN  IF r.some THEN <<r.item>> \o WsCollect(v, r.i) ELSE <<>>

\* LaunchOptions::env_as_iter
env_as_iter(value) == WsCollect(value, 0)

\* <OsString as Debug>::fmt: the string in double quotes, with `"` and `\`
\* escaped
RECURSIVE EscapeDebug(_)
EscapeDebug(s) ==
    IF s = <<>> THEN <<>>
    ELSE (IF Head(s) \in {"\"", "\\"} THEN <<"\\", Head(s)>> ELSE <<Head(s)>>)
         \o EscapeDebug(Tail(s))

DebugFmt(s) == <<"\"">> \o EscapeDebug(s) \o <<"\"">>

\* char::is_ascii_lowercase
is_ascii_lowercase(c) ==
    c \in {"a", "b", "c", "d", "e", "f", "g", "h", "i", "j", "k", "l", "m",
           "n", "o", "p", "q", "r", "s", "t", "u", "v", "w", "x", "y", "z"}

---------------------------------------------------------------------------
(* LaunchOptions, src/src/launch_options.rs *)

DEV_MODE_JAVA_OPTIONS ==
    <<TieredCompilation, TieredStopAtLevel, CompileModeOff, InvokedynamicFalse>>

\* LaunchOptions::default()
DefaultOptions ==
    [fork_java |-> FALSE, command_only |-> FALSE, no_boot_classpath |-> FALSE,
     nailgun_client |-> FALSE, launcher_logfile |-> None, boot_class |-> None,
     jdk_home |-> None, classpath_before |-> <<>>, classpath_after |-> <<>>,
     classpath_explicit |-> <<>>, java_args |-> <<>>, program_args |-> <<>>,
     java_opts |-> <<>>, jruby_opts |-> <<>>, jruby_home |-> None,
     java_major_version |-> 0, java_has_appcds |-> FALSE,
     regenerate_jsa_file |-> FALSE, xss |-> None, use_jsa_file |-> FALSE,
     remove_jsa_files |-> FALSE, log_cds |-> FALSE,
     classpath |-> <<>>, boot_classpath |-> <<>>, java_location |-> None,
     java_home |-> None, java_is_modular |-> FALSE, java_version |-> <<>>,
     use_appcds |-> FALSE, appcds_autogenerate |-> FALSE,
     native_access |-> FALSE, unsafe_memory |-> FALSE,
     suppress_console |-> FALSE, jruby_jsa_file |-> None]

\* the directives that take the following token as their value (arg_value!)
ValueDirectives ==
    {Xtrace, Xbootclass, Xjdkhome, Xcp_p, Xcp_a, J_cp, J_classpath}

\* the directives that only set a flag of LaunchOptions
FlagDirectives ==
    {Xfork_java, Xcommand, Xnobootclasspath, Ng, NoBootclasspath,
     NoCache, RmCache, LogCache}

\* the directives that append predetermined runtime flags
PassthroughDirectives ==
    {Server, Client, Dev, Sample, Manage, Headless, NgServer, Jea}

\* every literal pattern of the match in parse
DirectiveTable ==
    {DashDash, Xversion, Xhelp, DashX, Xproperties, Cache}
        \cup ValueDirectives \cup FlagDirectives \cup PassthroughDirectives

\* the token the scan is looking at
Tok == env.args[pos]

Scanning == pc = "scan" /\ pos <= Len(env.args)

HomeVarsUnchanged == UNCHANGED <<fs, exe_path, dir, os>>
SplitVarsUnchanged == UNCHANGED <<vec, i, items, separator>>

\* parse, up to the loop: JAVA_OPTS / JRUBY_OPTS / parse_os / JAVA_MEM /
\* JAVA_STACK, then args.next() for argv0 (parse_os makes no checks on the
\* target that has no /dev/urandom)
ParseBegin ==
    /\ pc = "parse"
    /\ IF Len(env.args) = 0
       THEN /\ pc' = "panic"
            /\ UNCHANGED <<options, pos>>
       ELSE /\ options' =
                [options EXCEPT
                   !.jruby_opts = @ \o (IF IsSome(env.jruby_opts)
                                        THEN env_as_iter(Unwrap(env.jruby_opts))
                                        ELSE <<>>),
                   !.java_args = @ \o env.java_mem,
                   !.java_opts = @ \o (IF IsSome(env.java_opts)
                                       THEN env_as_iter(Unwrap(env.java_opts))
                                       ELSE <<>>)
                                   \o env.java_stack]
            /\ pos' = 2
            /\ pc' = "scan"
    /\ UNCHANGED <<env, err>>
    /\ HomeVarsUnchanged /\ SplitVarsUnchanged

\* ArgTerminator without the `break`: `--` is pushed and the scan goes on
ArgTerminator_NoBreak ==
    /\ Scanning
    /\ Tok = DashDash
    /\ options' = [options EXCEPT !.program_args = Append(@, DashDash)]
    /\ pos' = pos + 1
    /\ UNCHANGED <<env, pc, err>>
    /\ HomeVarsUnchanged /\ SplitVarsUnchanged

\* "--" => push "--", extend with the rest of the iterator, break
ArgTerminator ==
    /\ Scanning
    /\ Tok = DashDash
    /\ options' = [options EXCEPT
                     !.program_args = @ \o <<DashDash>>
                                        \o SubSeq(env.args, pos + 1, Len(env.args))]
    /\ pc' = "parsed"
    /\ UNCHANGED <<env, pos, err>>
    /\ HomeVarsUnchanged /\ SplitVarsUnchanged

\* the arms that set one flag
SetFlag(o, t) ==
    CASE t = Xfork_java       -> [o EXCEPT !.fork_java = TRUE]
      [] t = Xcommand         -> [o EXCEPT !.command_only = TRUE]
      [] t = Xnobootclasspath -> [o EXCEPT !.no_boot_classpath = TRUE]
      [] t = Ng               -> [o EXCEPT !.nailgun_client = TRUE]
      [] t = NoBootclasspath  -> [o EXCEPT !.no_boot_classpath = TRUE]
      [] t = NoCache          -> [o EXCEPT !.use_jsa_file = FALSE]
      [] t = RmCache          -> [o EXCEPT !.remove_jsa_files = TRUE]
      [] t = LogCache         -> [o EXCEPT !.log_cds = TRUE]

ArgFlag ==
    /\ Scanning
    /\ Tok \in FlagDirectives
    /\ options' = SetFlag(options, Tok)
    /\ pos' = pos + 1
    /\ UNCHANGED <<env, pc, err>>
    /\ HomeVarsUnchanged /\ SplitVarsUnchanged

\* the arms that store arg_value!(args)
SetValue(o, t, value) ==
    CASE t = Xtrace     -> [o EXCEPT !.launcher_logfile = Some(value)]
      [] t = Xbootclass -> [o EXCEPT !.boot_class = Some(value)]
      [] t = Xjdkhome   -> [o EXCEPT !.jdk_home = Some(value)]
      [] t = Xcp_p      -> [o EXCEPT !.classpath_before = Append(@, value)]
      [] t = Xcp_a      -> [o EXCEPT !.classpath_after = Append(@, value)]
      [] t \in {J_cp, J_classpath}
                        -> [o EXCEPT !.classpath_explicit = Append(@, value)]

\* ArgValue with next() taken without the peek(): a directive with no token
\* after it leaves its value unset
ArgValue_NoPeek ==
    /\ Scanning
    /\ Tok \in ValueDirectives
    /\ IF pos + 1 <= Len(env.args)
       THEN /\ options' = SetValue(options, Tok, env.args[pos + 1])
            /\ pos' = pos + 2
       ELSE /\ pos' = pos + 1
            /\ UNCHANGED options
    /\ UNCHANGED <<env, pc, err>>
    /\ HomeVarsUnchanged /\ SplitVarsUnchanged

\* arg_value!: the next token if peek() is some, else return the
\* LaunchError "no extra argument"
ArgValue ==
    /\ Scanning
    /\ Tok \in ValueDirectives
    /\ IF pos + 1 <= Len(env.args)
       THEN /\ options' = SetValue(options, Tok, env.args[pos + 1])
            /\ pos' = pos + 2
            /\ UNCHANGED <<pc, err>>
       ELSE /\ pc' = "error"
            /\ err' = "no extra argument"
            /\ UNCHANGED <<options, pos>>
    /\ UNCHANGED env
    /\ HomeVarsUnchanged /\ SplitVarsUnchanged

\* "-Xversion" => return the LaunchError "need to fix -Xversion"
ArgVersion ==
    /\ Scanning
    /\ Tok = Xversion
    /\ pc' = "error"
    /\ err' = "need to fix -Xversion"
    /\ UNCHANGED <<env, options, pos>>
    /\ HomeVarsUnchanged /\ SplitVarsUnchanged

\* "-Xhelp" | "-X"
ArgHelp ==
    /\ Scanning
    /\ Tok \in {Xhelp, DashX}
    /\ options' = [options EXCEPT !.java_args = Append(@, NoPreamble),
                                  !.program_args = Append(@, DashX)]
    /\ pos' = pos + 1
    /\ UNCHANGED <<env, pc, err>>
    /\ HomeVarsUnchanged /\ SplitVarsUnchanged

\* "-Xproperties"
ArgProperties ==
    /\ Scanning
    /\ Tok = Xproperties
    /\ options' = [options EXCEPT !.program_args = Append(@, DashDashProperties)]
    /\ pos' = pos + 1
    /\ UNCHANGED <<env, pc, err>>
    /\ HomeVarsUnchanged /\ SplitVarsUnchanged

\* the arms that push predetermined runtime flags
Passthrough(o, t) ==
    CASE t = Server   -> [o EXCEPT !.java_args = Append(@, DashServer)]
      [] t = Client   -> [o EXCEPT !.java_args = Append(@, DashClient)]
      [] t = Dev      -> [o EXCEPT !.java_args = @ \o DEV_MODE_JAVA_OPTIONS]
      [] t = Sample   -> [o EXCEPT !.java_args = Append(@, Xprof)]
      [] t = Manage   -> [o EXCEPT !.java_args = @ \o <<JmxRemote, ManagementEnabled>>]
      [] t = Headless -> [o EXCEPT !.java_args = Append(@, AwtHeadless)]
      [] t = NgServer -> [o EXCEPT !.boot_class = Some(NGServerClass),
                                   !.java_args = Append(@, DashServer),
                                   !.no_boot_classpath = TRUE]
      [] t = Jea      -> [o EXCEPT !.java_args = Append(@, DashEa),
                                   !.no_boot_classpath = TRUE]

ArgPassthrough ==
    /\ Scanning
    /\ Tok \in PassthroughDirectives
    /\ options' = Passthrough(options, Tok)
    /\ pos' = pos + 1
    /\ UNCHANGED <<env, pc, err>>
    /\ HomeVarsUnchanged /\ SplitVarsUnchanged

\* "--cache": exit(2) unless java_has_appcds, else regenerate_jsa_file = true
ArgCache ==
    /\ Scanning
    /\ Tok = Cache
    /\ IF ~options.java_has_appcds
       THEN /\ pc' = "exit2"
            /\ UNCHANGED <<options, pos>>
       ELSE /\ options' = [options EXCEPT !.regenerate_jsa_file = TRUE]
            /\ pos' = pos + 1
            /\ UNCHANGED pc
    /\ UNCHANGED <<env, err>>
    /\ HomeVarsUnchanged /\ SplitVarsUnchanged

\* the default arm panics where two.to_str().unwrap() meets a `two` that is
\* not valid Unicode
ClassifyPanics(argument) ==
    /\ OsLen(argument) > 2
    /\ ~ValidUnicode(split_at(argument, 2)[1])

\* Classify with the length test off by one (len() >= 2)
Classify_LenGe2(o, argument) ==
    IF OsLen(argument) >= 2
    THEN LET two  == split_at(argument, 2)[1]
             rest == split_at(argument, 2)[2]
         IN  IF two = DashX /\ starts_with(rest, LitXss)
             THEN [o EXCEPT !.xss = Some(argument)]
             ELSE IF two = DashX /\ rest # <<>> /\ is_ascii_lowercase(rest[1])
             THEN [o EXCEPT !.java_args = Append(@, DjrubyDot \o DebugFmt(rest))]
             ELSE IF two = LitDashJ
             THEN [o EXCEPT !.java_args = Append(@, rest)]
             ELSE [o EXCEPT !.program_args = Append(@, argument)]
    ELSE [o EXCEPT !.program_args = Append(@, argument)]

\* the default arm, where it does not panic
Classify(o, argument) ==
    IF OsLen(argument) > 2
    THEN LET two  == split_at(argument, 2)[1]
             rest == split_at(argument, 2)[2]
         IN  IF two = DashX /\ starts_with(rest, LitXss)
             THEN [o EXCEPT !.xss = Some(argument)]
             ELSE IF two = DashX /\ is_ascii_lowercase(rest[1])
             THEN [o EXCEPT !.java_args = Append(@, DjrubyDot \o DebugFmt(rest))]
             ELSE IF two = LitDashJ
             THEN [o EXCEPT !.java_args = Append(@, rest)]
             ELSE [o EXCEPT !.program_args = Append(@, argument)]
    ELSE [o EXCEPT !.program_args = Append(@, argument)]

ArgOther ==
    /\ Scanning
    /\ Tok \notin DirectiveTable
    /\ IF ClassifyPanics(Tok)
       THEN /\ pc' = "panic"
            /\ UNCHANGED <<options, pos>>
       ELSE /\ options' = Classify(options, Tok)
            /\ pos' = pos + 1
            /\ UNCHANGED pc
    /\ UNCHANGED <<env, err>>
    /\ HomeVarsUnchanged /\ SplitVarsUnchanged

\* the iterator is exhausted: parse returns Ok(())
ParseEnd ==
    /\ pc = "scan"
    /\ pos > Len(env.args)
    /\ pc' = "parsed"
    /\ UNCHANGED <<env, options, pos, err>>
    /\ HomeVarsUnchanged /\ SplitVarsUnchanged

ParseNext ==
    \/ ParseBegin
    \/ ArgTerminator
    \/ ArgFlag
    \/ ArgValue
    \/ ArgVersion
    \/ ArgHelp
    \/ ArgProperties
    \/ ArgPassthrough
    \/ ArgCache
    \/ ArgOther
    \/ ParseEnd

---------------------------------------------------------------------------
(* The inputs of the parse model *)

\* a path: absolute or not, and its components
Path(abs, comps) == [abs |-> abs, comps |-> comps]

\* argv[0] as the shell passes it
Argv0Bare == Path(FALSE, <<"jruby.exe">>)

\* Environment with nothing set but the arguments
EmptyEnv(args) ==
    [args |-> args, current_dir |-> None, java_mem |-> None, java_opts |-> None,
     java_stack |-> None, jruby_opts |-> None, jruby_home |-> None, path |-> None,
     classpath |-> None, java_cmd |-> None, java_encoding |-> None,
     java_home |-> None, jruby_jsa_file |-> None]

\* the operating system before the launcher has done anything: no release
\* descriptor read, no logger installed, no child process
OsInit ==
    [release |-> <<>>, newer |-> FALSE, logger |-> "none",
     console |-> TRUE, command |-> <<>>, args |-> <<>>, command_line |-> "",
     child |-> "none", handles |-> {}, handler |-> FALSE, handler_ok |-> FALSE,
     waited |-> FALSE, exit_code |-> 0, ret |-> 0]

\* every token the parse distinguishes, and representatives of the rest
TokenPool ==
    DirectiveTable \cup
    {SmallX, LitDashJ, <<"a">>, <<>>, Foo, OutLog, Xfoo, Xss1m, Xxss1m, XFoo, Jfoo,
     AEmojiB}

CorePool ==
    {DashDash, Xtrace, Xcp_p, DashX, SmallX, Foo, Xfoo, Jfoo, NoCache, Xversion}

\* the example of the specification's testable properties
ExampleArgs == <<Xtrace, OutLog, Dev, DashDash, SmallX, Foo>>

\* settings of JAVA_OPTS, JRUBY_OPTS, JAVA_MEM, JAVA_STACK
EnvVariants ==
    {[java_opts |-> None, jruby_opts |-> None, java_mem |-> None, java_stack |-> None],
     [java_opts |-> None, jruby_opts |-> None, java_mem |-> Some(Xmx1g),
      java_stack |-> Some(Xss4m)],
     [java_opts |-> Some(OptsAB), jruby_opts |-> Some(OptsW), java_mem |-> None,
      java_stack |-> None]}

WithVariant(e, v) ==
    [e EXCEPT !.java_opts = v.java_opts, !.jruby_opts = v.jruby_opts,
              !.java_mem = v.java_mem, !.java_stack = v.java_stack]

\* the state before launch_options::new has read anything
ParseInit ==
    /\ env = EmptyEnv(<<>>)
    /\ options = DefaultOptions
    /\ pos = 1
    /\ pc = "new"
    /\ err = ""
    /\ fs = {} /\ exe_path = None /\ dir = None /\ os = OsInit
    /\ vec = <<>> /\ i = 0 /\ items = <<>> /\ separator = ""

\* Environment::from_env(args): the arguments and the environment variables
\* of this run
FromEnv ==
    /\ pc = "new"
    /\ \/ \E k \in 0..MaxArgs : \E a \in [1..k -> TokenPool] :
             env' = EmptyEnv(<<Argv0Bare>> \o a)
       \/ \E k \in 0..MaxCoreArgs : \E a \in [1..k -> CorePool] :
             \E v \in EnvVariants :
                env' = WithVariant(EmptyEnv(<<Argv0Bare>> \o a), v)
       \/ \E v \in EnvVariants :
             env' = WithVariant(EmptyEnv(<<Argv0Bare>> \o ExampleArgs), v)
    /\ pc' = "parse"
    /\ UNCHANGED <<options, pos, err>>
    /\ HomeVarsUnchanged /\ SplitVarsUnchanged

\* LaunchOptions::parse on every argument vector of ParseEnvs
SpecParse == ParseInit /\ [][FromEnv \/ ParseNext]_vars

---------------------------------------------------------------------------
(* Properties of LaunchOptions::parse *)

\* what the scan does to every field of the options but the two named
OnlyArgsChange == 
    options' = [options EXCEPT !.program_args = options'.program_args,
                               !.java_args = options'.java_args]

\* C1: when the scan reaches `--` in directive position it stops, and
\* program_args receives `--` followed by every remaining token verbatim and
\* in order, no other option being touched; for the argument vector
\* [argv0, -Xtrace, out.log, --dev, --, -x, foo] program_args ends as
\* [--, -x, foo] and the log destination as out.log.
C1_TerminatorStopsScan ==
    /\ [][(Scanning /\ Tok = DashDash) =>
             /\ pc' = "parsed"
             /\ options' = [options EXCEPT
                              !.program_args =
                                  @ \o SubSeq(env.args, pos, Len(env.args))]]_vars
    /\ []((pc = "parsed" /\ env.args = <<Argv0Bare>> \o ExampleArgs) =>
             /\ options.program_args = <<DashDash, SmallX, Foo>>
             /\ options.launcher_logfile = Some(OutLog)
             /\ options.java_args = env.java_mem \o DEV_MODE_JAVA_OPTIONS)

C1_Witness ==
    /\ pc = "parsed"
    /\ env.args = <<Argv0Bare>> \o ExampleArgs
    /\ options.program_args = <<DashDash, SmallX, Foo>>

\* C2: a value-taking directive met by the scan with no token after it makes
\* parse return the LaunchError "no extra argument" and changes no option;
\* with a token after it, that token becomes the value.  So parse never
\* returns Ok with a value-taking directive left as the last token, unless
\* that token follows a `--` or a value-taking directive (which consumed it).
C2_MissingArgumentValue ==
    /\ [][(Scanning /\ Tok \in ValueDirectives) =>
             IF pos = Len(env.args)
             THEN pc' = "error" /\ err' = "no extra argument" /\ options' = options
             ELSE /\ pc' = "scan" /\ pos' = pos + 2
                  /\ options' = SetValue(options, Tok, env.args[pos + 1])]_vars
    /\ []((/\ pc = "parsed"
           /\ Len(env.args) >= 2
           /\ env.args[Len(env.args)] \in ValueDirectives) =>
             \/ \E k \in 2..(Len(env.args) - 1) : env.args[k] = DashDash
             \/ env.args[Len(env.args) - 1] \in ValueDirectives)

C2_Witness ==
    /\ pc = "error"
    /\ err = "no extra argument"
    /\ pos = Len(env.args)
    /\ Tok \in ValueDirectives

\* the tokens of the directive grammar that are not in the table: the
\* launcher-property form -X<lowercase...> and the pass-through form -J...
IsPrefixForm(t) ==
    /\ Len(t) > 2
    /\ \/ SubSeq(t, 1, 2) = DashX /\ is_ascii_lowercase(t[3])
       \/ SubSeq(t, 1, 2) = LitDashJ

\* C3: a token that is no known directive never makes the parser return an
\* error or terminate the launcher; it is appended to program_args.
C3_UnknownNeverErrors ==
    [][(Scanning /\ Tok \notin DirectiveTable /\ ~IsPrefixForm(Tok)) =>
          /\ pc' = "scan"
          /\ options' = [options EXCEPT !.program_args = Append(@, Tok)]]_vars

\* C4 as claimed: a token of length <= 2 met by the scan is appended to
\* program_args and is never a directive nor turned into a runtime flag.
C4_ShortTokensOnlyProgramArgs ==
    [][(Scanning /\ OsLen(Tok) <= 2) =>
          /\ starts_with(options'.program_args, Append(options.program_args, Tok))
          /\ options'.java_args = options.java_args
          /\ OnlyArgsChange]_vars

\* C4, amended: a token of at most 2 bytes met by the scan is appended to
\* program_args and sets no launcher option; it adds no runtime flag, except
\* `-X`, which also appends -Djruby.launcher.nopreamble=true.
C4_ShortTokensAreProgramArgs ==
    [][(Scanning /\ OsLen(Tok) <= 2) =>
          /\ pc' \in {"scan", "parsed"}
          /\ starts_with(options'.program_args, Append(options.program_args, Tok))
          /\ options'.java_args = IF Tok = DashX
                                  THEN Append(options.java_args, NoPreamble)
                                  ELSE options.java_args
          /\ OnlyArgsChange]_vars

C4_Witness ==
    /\ pc = "parsed"
    /\ env.args = <<Argv0Bare, SmallX, DashX>>
    /\ options.program_args = <<SmallX, DashX>>
    /\ options.java_args = <<NoPreamble>>

\* a stack-size token, as in XSS_DEFAULT_OPT: -Xss<size>
IsStackSize(t) == starts_with(t, <<"-", "X", "s", "s">>)

\* C5: a token of ASCII characters, longer than two characters, that is not
\* in the directive table is classified by its 2-character prefix: a stack-size token becomes the
\* stack-size override and yields no runtime flag; -X<lowercase...> yields
\* exactly the runtime flag -Djruby.<rest>; -J<rest> yields the runtime flag
\* <rest>; anything else is appended to program_args.
C5_PrefixClassification ==
    [][(/\ Scanning
        /\ Tok \notin DirectiveTable
        /\ Len(Tok) > 2
        /\ \A k \in 1..Len(Tok) : Tok[k] \notin {HiSurrogate, LoSurrogate}) =>
          LET rest == SubSeq(Tok, 3, Len(Tok))
          IN  /\ pc' = "scan"
              /\ options' =
                   IF IsStackSize(Tok)
                   THEN [options EXCEPT !.xss = Some(Tok)]
                   ELSE IF SubSeq(Tok, 1, 2) = DashX /\ is_ascii_lowercase(rest[1])
                   THEN [options EXCEPT !.java_args = Append(@, DjrubyDot \o rest)]
                   ELSE IF SubSeq(Tok, 1, 2) = LitDashJ
                   THEN [options EXCEPT !.java_args = Append(@, rest)]
                   ELSE [options EXCEPT !.program_args = Append(@, Tok)]]_vars

---------------------------------------------------------------------------
(* OsWhitespaceSplitIter driven to exhaustion, as env_as_iter's collect() *)

\* the units the strings handed to split_ascii_whitespace are made of
WsAlphabet == {"a", "b", " ", "\t"}

\* the string of tests::split_ascii_whitespace_simple
TestPotato ==
    <<"M", "y", " ", "\t", " ", " ", "p", "o", "t", "a", "t", "o", "\r", "\n", "a", "n", "d", " ", "o", "n", "i", "o", "n", "s">>

ParseVarsUnchanged == UNCHANGED <<env, options, pos, err>>

SplitInit ==
    /\ env = EmptyEnv(<<>>)
    /\ options = DefaultOptions
    /\ pos = 1
    /\ pc = "split"
    /\ err = ""
    /\ fs = {} /\ exe_path = None /\ dir = None /\ os = OsInit
    /\ vec = <<>> /\ i = 0 /\ items = <<>> /\ separator = ""

\* OsStringExt::split_ascii_whitespace(&self): a new iterator over the
\* string's units
SplitAsciiWhitespace ==
    /\ pc = "split"
    /\ \/ \E n \in 0..MaxLen : \E s \in [1..n -> WsAlphabet] : vec' = s
       \/ vec' \in {OptsAB, OptsW, TestPotato,
                    <<" ", " ">> \o TestPotato,
                    <<" ", " ">> \o TestPotato \o <<" ", " ">>}
    /\ i' = 0
    /\ items' = <<>>
    /\ separator' = separator
    /\ pc' = "iterate"
    /\ ParseVarsUnchanged /\ HomeVarsUnchanged

\* one call of next() that yields an item
WsIterSome ==
    /\ pc = "iterate"
    /\ WsNext(vec, i).some
    /\ items' = Append(items, WsNext(vec, i).item)
    /\ i' = WsNext(vec, i).i
    /\ UNCHANGED <<vec, pc, separator>>
    /\ ParseVarsUnchanged /\ HomeVarsUnchanged

\* the call of next() that yields None: collect() is done
WsIterNone ==
    /\ pc = "iterate"
    /\ ~WsNext(vec, i).some
    /\ pc' = "collected"
    /\ UNCHANGED <<vec, i, items, separator>>
    /\ ParseVarsUnchanged /\ HomeVarsUnchanged

SplitNext == SplitAsciiWhitespace \/ WsIterSome \/ WsIterNone

\* split_ascii_whitespace().collect() on every string of the bounds
SpecSplit == SplitInit /\ [][SplitNext]_vars

---------------------------------------------------------------------------
(* Properties of split_ascii_whitespace *)

\* the length of the longest prefix of s without whitespace
RECURSIVE RunLen(_)
RunLen(s) ==
    IF s = <<>> \/ is_whitespace(Head(s)) THEN 0 ELSE 1 + RunLen(Tail(s))

\* the maximal runs of non-whitespace units of s, in order
RECURSIVE Runs(_)
Runs(s) ==
    IF s = <<>> THEN <<>>
    ELSE IF is_whitespace(Head(s)) THEN Runs(Tail(s))
    ELSE <<SubSeq(s, 1, RunLen(s))>> \o Runs(SubSeq(s, RunLen(s) + 1, Len(s)))

\* C6: for every input string the iterator yields exactly the maximal runs
\* of non-whitespace units, in order, none dropped and none holding a
\* whitespace unit.
C6_SplitYieldsMaximalRuns ==
    pc = "collected" => items = Runs(vec)

\* the strings of tests::split_ascii_whitespace_simple and "-Xa -Xb" split
\* as the tests say
SplitTestsPass ==
    (pc = "collected" /\ vec \in {OptsAB, TestPotato, <<" ", " ">> \o TestPotato,
                                  <<" ", " ">> \o TestPotato \o <<" ", " ">>})
        => items = Runs(vec)

---------------------------------------------------------------------------
(* Paths: std::path as the launcher uses it *)

\* Path::is_absolute
is_absolute(p) == p.abs

\* Path::parent: None for a root and for the empty path
parent(p) ==
    IF p.comps = <<>> THEN None
    ELSE Some([p EXCEPT !.comps = SubSeq(@, 1, Len(@) - 1)])

\* Path::join / PathBuf::push: an absolute argument replaces the base
join(base, p) ==
    IF p.abs THEN p ELSE Path(base.abs, base.comps \o p.comps)

\* Path::ancestors: the path, its parent, its parent's parent, ...
RECURSIVE ancestors(_)
ancestors(p) ==
    <<p>> \o (IF IsSome(parent(p)) THEN ancestors(Unwrap(parent(p))) ELSE <<>>)

\* Iterator::take(n)
take(s, n) == SubSeq(s, 1, IF n < Len(s) THEN n ELSE Len(s))

\* <PathBuf as FromIterator>::from_iter: push every item onto an empty PathBuf
RECURSIVE collect(_)
collect(ps) ==
    IF ps = <<>> THEN Path(FALSE, <<>>)
    ELSE join(collect(SubSeq(ps, 1, Len(ps) - 1)), ps[Len(ps)])

---------------------------------------------------------------------------
(* Environment: locating the JRuby executable *)

\* the longest PATH, in directories
MaxPathDirs == 2

\* the file names of the model that Path::extension finds an extension in
NamesWithExtension == {"jruby.exe"}

\* Path::extension().is_none()
extension_is_none(p) ==
    p.comps = <<>> \/ p.comps[Len(p.comps)] \notin NamesWithExtension

\* Path::with_extension(".exe") of a path without extension: the file name
\* followed by a dot and the given extension, dot included
with_extension_exe(p) ==
    IF p.comps = <<>> THEN p
    ELSE [p EXCEPT !.comps[Len(p.comps)] = @ \o "." \o ".exe"]

\* Environment::argv0 on Windows
argv0(e) ==
    IF extension_is_none(e.args[1]) THEN with_extension_exe(e.args[1])
    ELSE e.args[1]

\* the exist_test closure of LaunchOptions::new: |f| f.exists()
exist_test(p) == p \in fs

\* a search that keeps the last PATH directory that passes the test
find_from_path_last(file, path) ==
    IF path = None THEN None
    ELSE LET dirs == Unwrap(path)
             hits == {k \in 1..Len(dirs) : exist_test(join(dirs[k], file))}
         IN  IF hits = {} THEN None
             ELSE Some(join(dirs[CHOOSE k \in hits : \A h \in hits : h <= k], file))

\* find_from_path: the join of file with the first directory of PATH, as
\* split_paths lists it, whose join passes the test
find_from_path(file, path) ==
    IF path = None THEN None
    ELSE LET dirs == Unwrap(path)
             hits == {k \in 1..Len(dirs) : exist_test(join(dirs[k], file))}
         IN  IF hits = {} THEN None
             ELSE Some(join(dirs[CHOOSE k \in hits : \A h \in hits : k <= h], file))

\* argv0 has a parent that is not the empty path
has_parent_dir(a) == IsSome(parent(a)) /\ Unwrap(parent(a)).comps # <<>>

\* a derivation that climbs to the install root for an absolute argv0
derive_home_climbing(e, a, path) ==
    IF is_absolute(a) THEN collect(take(ancestors(a), 3))
    ELSE IF /\ has_parent_dir(a)
            /\ IsSome(e.current_dir)
            /\ exist_test(join(Unwrap(e.current_dir), a))
         THEN join(Unwrap(e.current_dir), a)
         ELSE IF IsSome(find_from_path(a, path))
              THEN Unwrap(find_from_path(a, path))
              ELSE a

\* a derivation that searches PATH before the current directory
derive_home_path_first(e, a, path) ==
    IF is_absolute(a) THEN a
    ELSE IF IsSome(find_from_path(a, path))
         THEN Unwrap(find_from_path(a, path))
         ELSE IF /\ has_parent_dir(a)
                 /\ IsSome(e.current_dir)
                 /\ exist_test(join(Unwrap(e.current_dir), a))
              THEN join(Unwrap(e.current_dir), a)
              ELSE a

\* Environment::derive_home_from_argv0
derive_home_from_argv0(e, a, path) ==
    IF is_absolute(a) THEN a
    ELSE IF /\ has_parent_dir(a)
            /\ IsSome(e.current_dir)
            /\ exist_test(join(Unwrap(e.current_dir), a))
         THEN join(Unwrap(e.current_dir), a)
         ELSE IF IsSome(find_from_path(a, path))
              THEN Unwrap(find_from_path(a, path))
              ELSE a

\* directories and files of the inputs
Bin == Path(FALSE, <<"bin">>)
OptJruby == Path(TRUE, <<"opt", "jruby">>)
OptJrubyBin == Path(TRUE, <<"opt", "jruby", "bin">>)
UsrBin == Path(TRUE, <<"usr", "bin">>)
HomeUser == Path(TRUE, <<"home", "user">>)
AbsExe == Path(TRUE, <<"opt", "jruby", "bin", "jruby.exe">>)
RelExe == Path(FALSE, <<"bin", "jruby.exe">>)
BareNoExt == Path(FALSE, <<"jruby">>)

Argv0Pool == {AbsExe, RelExe, Argv0Bare, BareNoExt}
CurrentDirPool == {None, Some(OptJruby), Some(HomeUser)}
JrubyHomePool == {None, Some(OptJruby)}
PathDirPool == {OptJruby, OptJrubyBin, UsrBin}
PathPool ==
    {None} \cup
    {Some(s) : s \in UNION {[1..n -> PathDirPool] : n \in 0..MaxPathDirs}}

\* the paths whose existence the search of environment e can ask about
Consulted(e) ==
    (IF IsSome(e.jruby_home) THEN {join(Unwrap(e.jruby_home), Bin)} ELSE {})
    \cup {argv0(e)}
    \cup (IF IsSome(e.current_dir)
          THEN {join(Unwrap(e.current_dir), argv0(e))} ELSE {})
    \cup (IF IsSome(e.path)
          THEN {join(Unwrap(e.path)[k], argv0(e)) : k \in 1..Len(Unwrap(e.path))}
          ELSE {})

\* Environment::from_env, with the file system and the answer of
\* get_executable_path the process finds itself in
FromEnvHome ==
    /\ pc = "new"
    /\ \E a \in Argv0Pool, cwd \in CurrentDirPool, home \in JrubyHomePool,
          path \in PathPool :
          env' = [EmptyEnv(<<a>>) EXCEPT !.current_dir = cwd,
                                         !.jruby_home = home,
                                         !.path = path]
    /\ fs' \in SUBSET Consulted(env')
    /\ exe_path' \in {None, Some(AbsExe)}
    /\ pc' = "parse"
    /\ UNCHANGED <<options, pos, err, dir, os>>
    /\ SplitVarsUnchanged

\* new: parse has returned Ok and, if -Xtrace was given, setup_logging has run
ReadyToLocate ==
    /\ pc = "parsed"
    /\ IsSome(options.launcher_logfile) => os.logger # "none"

\* determine_jruby_executable: JRUBY_HOME is set and holds a bin directory
HomeFromJrubyHome ==
    /\ ReadyToLocate
    /\ IsSome(env.jruby_home)
    /\ exist_test(join(Unwrap(env.jruby_home), Bin))
    /\ dir' = Some(Unwrap(env.jruby_home))
    /\ pc' = "found"
    /\ UNCHANGED <<env, options, pos, err, fs, exe_path, os>>
    /\ SplitVarsUnchanged

JrubyHomeRejected ==
    ~(IsSome(env.jruby_home) /\ exist_test(join(Unwrap(env.jruby_home), Bin)))

\* determine_jruby_executable: the operating system names the executable
HomeFromExecutablePath ==
    /\ ReadyToLocate
    /\ JrubyHomeRejected
    /\ IsSome(exe_path)
    /\ dir' = exe_path
    /\ pc' = "found"
    /\ UNCHANGED <<env, options, pos, err, fs, exe_path, os>>
    /\ SplitVarsUnchanged

\* determine_jruby_executable: the call of derive_home_from_argv0
HomeFromArgv0 ==
    /\ ReadyToLocate
    /\ JrubyHomeRejected
    /\ exe_path = None
    /\ dir' = Some(derive_home_from_argv0(env, argv0(env), env.path))
    /\ pc' = "derived"
    /\ UNCHANGED <<env, options, pos, err, fs, exe_path, os>>
    /\ SplitVarsUnchanged
\* determine_jruby_executable without the existence test of the derived path
HomeDerived_NoCheck ==
    /\ pc = "derived"
    /\ pc' = "found"
    /\ UNCHANGED <<env, options, pos, err, fs, exe_path, dir, os>>
    /\ SplitVarsUnchanged

\* determine_jruby_executable: the derived path has to exist
HomeDerivedExists ==
    /\ pc = "derived"
    /\ IF exist_test(Unwrap(dir))
       THEN pc' = "found" /\ err' = err
       ELSE pc' = "error" /\ err' = "unable to find JRuby home"
    /\ UNCHANGED <<env, options, pos, fs, exe_path, dir, os>>
    /\ SplitVarsUnchanged

\* LaunchOptions::new: the home is the collection of the executable's first
\* three ancestors
SetJrubyHome ==
    /\ pc = "found"
    /\ options' = [options EXCEPT
                     !.jruby_home = Some(collect(take(ancestors(Unwrap(dir)), 3)))]
    /\ pc' = "located"
    /\ UNCHANGED <<env, pos, err, fs, exe_path, dir, os>>
    /\ SplitVarsUnchanged

HomeNext ==
    \/ FromEnvHome
    \/ ParseBegin
    \/ ParseEnd
    \/ HomeFromJrubyHome
    \/ HomeFromExecutablePath
    \/ HomeFromArgv0
    \/ HomeDerivedExists
    \/ SetJrubyHome

\* LaunchOptions::new up to the assignment of jruby_home, on a command line
\* without arguments
SpecHome == ParseInit /\ [][HomeNext]_vars

---------------------------------------------------------------------------
(* Properties of the search for the JRuby home *)

\* C7: when JRUBY_HOME is set and holds a bin directory, jruby_home after
\* construction is exactly the value of JRUBY_HOME: no ancestor climbing.
C7_JrubyHomeOverrideIsHome ==
    (/\ pc = "located"
     /\ IsSome(env.jruby_home)
     /\ exist_test(join(Unwrap(env.jruby_home), Bin)))
        => options.jruby_home = env.jruby_home

\* C8: for an absolute argv0, derive_home_from_argv0 returns argv0
\* unchanged, whatever PATH, the current directory and the file system are.
C8_AbsoluteArgv0Unchanged ==
    (pc = "derived" /\ is_absolute(argv0(env))) => dir = Some(argv0(env))

C8_Witness ==
    /\ pc = "derived"
    /\ env.args[1] = AbsExe
    /\ dir = Some(AbsExe)
    /\ env.current_dir = Some(HomeUser)
    /\ env.path = Some(<<UsrBin, OptJruby>>)
    /\ fs = {}

\* C9: for a relative argv0 with a non-empty parent, a known current
\* directory and a test that accepts the current directory joined with
\* argv0, derive_home_from_argv0 returns that joined path, whatever PATH is.
C9_RelativeArgv0JoinsCwd ==
    (/\ pc = "derived"
     /\ ~is_absolute(argv0(env))
     /\ has_parent_dir(argv0(env))
     /\ IsSome(env.current_dir)
     /\ exist_test(join(Unwrap(env.current_dir), argv0(env))))
        => dir = Some(join(Unwrap(env.current_dir), argv0(env)))

C9_Witness ==
    /\ pc = "derived"
    /\ env.args[1] = RelExe
    /\ env.current_dir = Some(HomeUser)
    /\ env.path = Some(<<OptJruby>>)
    /\ fs = {join(HomeUser, RelExe), AbsExe}
    /\ dir = Some(join(HomeUser, RelExe))

\* the PATH directories whose join with a passes the test, by position
PathHits(a) ==
    IF env.path = None THEN {}
    ELSE {k \in 1..Len(Unwrap(env.path)) :
            exist_test(join(Unwrap(env.path)[k], a))}

\* C10: for a relative argv0, when the current directory is unknown or the
\* test rejects the current directory joined with argv0,
\* derive_home_from_argv0 returns the join of argv0 with the first PATH
\* directory whose join passes the test, and argv0 itself when there is none.
C10_PathSearchThenArgv0 ==
    (/\ pc = "derived"
     /\ ~is_absolute(argv0(env))
     /\ \/ env.current_dir = None
        \/ ~exist_test(join(Unwrap(env.current_dir), argv0(env))))
        => \/ /\ PathHits(argv0(env)) = {}
              /\ dir = Some(argv0(env))
           \/ \E k \in PathHits(argv0(env)) :
                /\ \A h \in PathHits(argv0(env)) : k <= h
                /\ dir = Some(join(Unwrap(env.path)[k], argv0(env)))

C10_Witness ==
    /\ pc = "derived"
    /\ env.args[1] = Argv0Bare
    /\ env.current_dir = None
    /\ env.path = Some(<<UsrBin, OptJrubyBin>>)
    /\ fs = {join(UsrBin, Argv0Bare), join(OptJrubyBin, Argv0Bare)}
    /\ dir = Some(join(UsrBin, Argv0Bare))

\* C11: when the JRUBY_HOME override does not apply and the operating
\* system does not name the executable, determine_jruby_executable returns
\* the error "unable to find JRuby home" exactly when the candidate derived
\* from argv0 fails the existence test, and returns that candidate
\* otherwise; a JRUBY_HOME without bin is no error, the later steps run.
C11_HomeNotFoundIffCandidateMissing ==
    /\ [](pc = "derived" =>
            /\ JrubyHomeRejected
            /\ exe_path = None
            /\ dir = Some(derive_home_from_argv0(env, argv0(env), env.path)))
    /\ [][(pc = "parsed" /\ JrubyHomeRejected) => pc' \in {"found", "derived"}]_vars
    /\ [][pc = "derived" =>
            /\ dir' = dir
            /\ IF exist_test(Unwrap(dir))
               THEN pc' = "found" /\ err' = ""
               ELSE pc' = "error" /\ err' = "unable to find JRuby home"]_vars

C11_Witness ==
    /\ pc = "error"
    /\ err = "unable to find JRuby home"
    /\ env.jruby_home = Some(OptJruby)
    /\ ~exist_test(join(OptJruby, Bin))
    /\ exe_path = None
    /\ dir = Some(AbsExe)

---------------------------------------------------------------------------
(* find_from_path, one directory of PATH at a time *)

\* JAVA_NAME, as the path find_from_path joins to a directory
JavaExe == Path(FALSE, <<"java.exe">>)

\* the empty path: what split_paths yields between two separators
EmptyPath == Path(FALSE, <<>>)

FindNamePool == {Argv0Bare, RelExe, AbsExe, JavaExe}
FindDirPool == PathDirPool \cup {EmptyPath}

FindInit ==
    /\ env = EmptyEnv(<<>>)
    /\ options = DefaultOptions
    /\ pos = 1
    /\ pc = "find"
    /\ err = ""
    /\ fs = {} /\ exe_path = None /\ dir = None /\ os = OsInit
    /\ vec = <<>> /\ i = 0 /\ items = <<>> /\ separator = ""

\* a call find_from_path(file, path, test): file is env.args[1], path is
\* env.path, test is membership in fs
FindFromPathCall ==
    /\ pc = "find"
    /\ \E f \in FindNamePool :
         \E p \in {None} \cup
                  {Some(s) : s \in UNION {[1..n -> FindDirPool] : n \in 0..MaxPathDirs}} :
            /\ env' = [EmptyEnv(<<f>>) EXCEPT !.path = p]
            /\ fs' \in SUBSET (IF p = None THEN {f}
                               ELSE {join(Unwrap(p)[k], f) : k \in 1..Len(Unwrap(p))})
    /\ pos' = 1
    /\ pc' = "find_loop"
    /\ UNCHANGED <<options, err, exe_path, dir, os>>
    /\ SplitVarsUnchanged

\* `if let Some(paths) = path` fails: None
FindNoPath ==
    /\ pc = "find_loop"
    /\ env.path = None
    /\ dir' = None
    /\ pc' = "find_done"
    /\ UNCHANGED <<env, options, pos, err, fs, exe_path, os>>
    /\ SplitVarsUnchanged

\* a search that returns the directory that matched, not the joined path
FindHit_ReturnsDir ==
    /\ pc = "find_loop"
    /\ IsSome(env.path)
    /\ pos <= Len(Unwrap(env.path))
    /\ exist_test(join(Unwrap(env.path)[pos], env.args[1]))
    /\ dir' = Some(Unwrap(env.path)[pos])
    /\ pc' = "find_done"
    /\ UNCHANGED <<env, options, pos, err, fs, exe_path, os>>
    /\ SplitVarsUnchanged

\* the loop body where test(&test_path) holds: return Some(test_path)
FindHit ==
    /\ pc = "find_loop"
    /\ IsSome(env.path)
    /\ pos <= Len(Unwrap(env.path))
    /\ exist_test(join(Unwrap(env.path)[pos], env.args[1]))
    /\ dir' = Some(join(Unwrap(env.path)[pos], env.args[1]))
    /\ pc' = "find_done"
    /\ UNCHANGED <<env, options, pos, err, fs, exe_path, os>>
    /\ SplitVarsUnchanged

\* the loop body where the test fails: on to the next directory
FindMiss ==
    /\ pc = "find_loop"
    /\ IsSome(env.path)
    /\ pos <= Len(Unwrap(env.path))
    /\ ~exist_test(join(Unwrap(env.path)[pos], env.args[1]))
    /\ pos' = pos + 1
    /\ UNCHANGED <<env, options, pc, err, fs, exe_path, dir, os>>
    /\ SplitVarsUnchanged

\* the directories are used up: None
FindExhausted ==
    /\ pc = "find_loop"
    /\ IsSome(env.path)
    /\ pos > Len(Unwrap(env.path))
    /\ dir' = None
    /\ pc' = "find_done"
    /\ UNCHANGED <<env, options, pos, err, fs, exe_path, os>>
    /\ SplitVarsUnchanged

FindNext ==
    \/ FindFromPathCall
    \/ FindNoPath
    \/ FindHit
    \/ FindMiss
    \/ FindExhausted

\* find_from_path on every name, PATH and file system of the bounds
SpecFind == FindInit /\ [][FindNext]_vars

\* the loop and the operator find_from_path agree
FindLoopIsFindFromPath ==
    pc = "find_done" => dir = find_from_path(env.args[1], env.path)

\* C12: find_from_path returns the join of the name with the first
\* directory of the list, in list order, whose joined candidate passes the
\* test; it returns nothing when no candidate passes or there is no list;
\* it ends in no error whatever the test answers.
C12_FindFirstMatchInOrder ==
    /\ pc \notin {"error", "panic"}
    /\ err = ""
    /\ pc = "find_done" =>
         IF env.path = None
         THEN dir = None
         ELSE LET dirs == Unwrap(env.path)
                  ok(k) == join(dirs[k], env.args[1]) \in fs
              IN  \/ /\ \A k \in 1..Len(dirs) : ~ok(k)
                     /\ dir = None
                  \/ \E k \in 1..Len(dirs) :
                       /\ ok(k)
                       /\ \A h \in 1..(k - 1) : ~ok(h)
                       /\ dir = Some(join(dirs[k], env.args[1]))

C12_Witness ==
    /\ pc = "find_done"
    /\ env.args[1] = JavaExe
    /\ env.path = Some(<<UsrBin, OptJrubyBin>>)
    /\ fs = {join(UsrBin, JavaExe), join(OptJrubyBin, JavaExe)}
    /\ pos = 1
    /\ dir = Some(join(UsrBin, JavaExe))

---------------------------------------------------------------------------
(* Literals of the later phases and of their inputs *)

MAIN_CLASS == <<"o", "r", "g", "/", "j", "r", "u", "b", "y", "/", "M", "a", "i", "n">>
JavaVersionKey == <<"J", "A", "V", "A", "_", "V", "E", "R", "S", "I", "O", "N", "=">>
Release17 == <<"J", "A", "V", "A", "_", "V", "E", "R", "S", "I", "O", "N", "=", "\"", "1", "7", ".", "0", ".", "2", "\"">>
Release8 == <<"J", "A", "V", "A", "_", "V", "E", "R", "S", "I", "O", "N", "=", "\"", "1", ".", "8", ".", "0", "_", "2", "9", "2", "\"">>
Release21 == <<"J", "A", "V", "A", "_", "V", "E", "R", "S", "I", "O", "N", "=", "\"", "2", "1", ".", "0", ".", "1", "\"">>
Release22 == <<"J", "A", "V", "A", "_", "V", "E", "R", "S", "I", "O", "N", "=", "\"", "2", "2", ".", "0", ".", "1", "\"">>
Release23 == <<"J", "A", "V", "A", "_", "V", "E", "R", "S", "I", "O", "N", "=", "\"", "2", "3", "\"">>
ReleaseNoDigits == <<"J", "A", "V", "A", "_", "V", "E", "R", "S", "I", "O", "N", "=", "\"", "x", ".", "\"">>
ReleaseOther == <<"O", "S", "_", "N", "A", "M", "E", "=", "\"", "W", "i", "n", "d", "o", "w", "s", "\"">>
ClasspathAB == <<"a", ".", "j", "a", "r", ";", "b", ".", "j", "a", "r">>
XJar == <<"x", ".", "j", "a", "r">>
YJar == <<"y", ".", "j", "a", "r">>
JdkHomeTok == <<"C", ":", "\\", "j", "d", "k">>
DrivePrefix == <<"C", ":", "\\">>
ClasspathQuoted == <<"\"", "a", ".", "j", "a", "r", "\"", ";", "b", ".", "j", "a", "r", ";">>
QuoteJar == <<"a", "\"", "b", ".", "j", "a", "r">>

---------------------------------------------------------------------------
(* Text: OsString, String and Path as the later phases of new format them *)

\* an OsString or String of the model as one piece of text
\* (Display, to_string_lossy on valid Unicode)
RECURSIVE Str(_)
Str(s) == IF s = <<>> THEN "" ELSE Head(s) \o Str(Tail(s))

\* Str on every item of a Vec
StrEach(v) == [k \in 1..Len(v) |-> Str(v[k])]

\* pieces of text joined with a separator
RECURSIVE JoinStr(_, _)
JoinStr(pieces, sep) ==
    IF pieces = <<>> THEN ""
    ELSE IF Len(pieces) = 1 THEN pieces[1]
    ELSE pieces[1] \o sep \o JoinStr(Tail(pieces), sep)

\* Path::display on Windows: the prefix and root of an absolute path, then
\* the components with MAIN_SEPARATOR between them
Display(p) == (IF p.abs THEN "C:\\" ELSE "") \o JoinStr(p.comps, "\\")

\* the fields of s between the units equal to sep, sep left out
RECURSIVE Fields(_, _)
Fields(s, sep) ==
    IF \A k \in 1..Len(s) : s[k] # sep THEN <<s>>
    ELSE LET k == CHOOSE k \in 1..Len(s) :
                    s[k] = sep /\ \A h \in 1..(k - 1) : s[h] # sep
         IN  <<SubSeq(s, 1, k - 1)>> \o Fields(SubSeq(s, k + 1, Len(s)), sep)

\* PathBuf::from(OsString) on Windows for the shapes of the model: a drive
\* prefix with a root makes the path absolute, the separator splits the
\* rest into components, empty components are dropped
PathBufFrom(s) ==
    LET abs  == Len(s) >= 3 /\ SubSeq(s, 1, 3) = DrivePrefix
        rest == IF abs THEN SubSeq(s, 4, Len(s)) ELSE s
        flds == Fields(rest, "\\")
        keep == SelectSeq(flds, LAMBDA f : f # <<>>)
    IN  Path(abs, StrEach(keep))

\* std::env::split_paths on Windows: a semicolon separates, a double quote
\* toggles quoting and is dropped, and the end of the string closes the
\* last path, so a string that ends in a semicolon ends in an empty path
RECURSIVE split_paths_from(_, _, _)
split_paths_from(s, in_progress, in_quote) ==
    IF s = <<>> THEN <<in_progress>>
    ELSE IF Head(s) = "\"" THEN split_paths_from(Tail(s), in_progress, ~in_quote)
    ELSE IF Head(s) = ";" /\ ~in_quote
         THEN <<in_progress>> \o split_paths_from(Tail(s), <<>>, FALSE)
    ELSE split_paths_from(Tail(s), Append(in_progress, Head(s)), in_quote)

split_paths(s) == split_paths_from(s, <<>>, FALSE)

\* std::env::join_paths on Windows, for paths that hold no double quote and
\* no semicolon
join_paths(paths) == JoinStr(paths, ";")

---------------------------------------------------------------------------
(* determine_java_location: where java is and what it can do *)

Digits == <<"0", "1", "2", "3", "4", "5", "6", "7", "8", "9">>

is_digit(c) == \E k \in 1..10 : Digits[k] = c

digit_value(c) == (CHOOSE k \in 1..10 : Digits[k] = c) - 1

is_version_unit(c) == is_digit(c) \/ c = "."

\* the length of the longest prefix of s without a digit: \s*\D*
RECURSIVE NonDigitLen(_)
NonDigitLen(s) ==
    IF s = <<>> \/ is_digit(Head(s)) THEN 0 ELSE 1 + NonDigitLen(Tail(s))

\* the length of the longest prefix of s of digits and dots: [\d.]+
RECURSIVE VersionLen(_)
VersionLen(s) ==
    IF s = <<>> \/ ~is_version_unit(Head(s)) THEN 0 ELSE 1 + VersionLen(Tail(s))

\* group 1 of JAVA_VERSION=\s*\D*([\d.]+) on a line that starts with
\* JAVA_VERSION=: \s*\D* takes the non-digits, the group the digits and
\* dots that follow; with no digit on the line the match backtracks to the
\* last dot, and without a dot there is no match
version_capture(line) ==
    LET rest  == SubSeq(line, Len(JavaVersionKey) + 1, Len(line))
        n     == NonDigitLen(rest)
        after == SubSeq(rest, n + 1, Len(rest))
    IN  IF n < Len(rest)
        THEN Some(SubSeq(after, 1, VersionLen(after)))
        ELSE IF \E k \in 1..n : rest[k] = "." THEN Some(<<".">>)
        ELSE None

\* grep(file, "^JAVA_VERSION="): the matching lines, None when there is none
grep_java_version(lines) ==
    LET hits == SelectSeq(lines, LAMBDA l : starts_with(l, JavaVersionKey))
    IN  IF hits = <<>> THEN None ELSE Some(hits)

\* LaunchOptions::java_home(subdirs) / jruby_home(subdirs): dir_builder
RECURSIVE dir_builder(_, _)
dir_builder(path, subdirs) ==
    IF subdirs = <<>> THEN path
    ELSE dir_builder(join(path, Path(FALSE, <<Head(subdirs)>>)), Tail(subdirs))

\* find_java_version, given the java home
find_java_version(java_home) ==
    IF ~exist_test(dir_builder(java_home, <<"release">>)) THEN None
    ELSE IF grep_java_version(os.release) = None THEN None
    ELSE version_capture(Unwrap(grep_java_version(os.release))[1])

\* the text before the first `.`: full_version.split('.').next()
first_field(version) == Fields(version, ".")[1]

\* str::parse::<u16> succeeds: digits only, at least one, at most 65535
RECURSIVE nat_value(_)
nat_value(s) ==
    IF s = <<>> THEN 0
    ELSE 10 * nat_value(SubSeq(s, 1, Len(s) - 1)) + digit_value(s[Len(s)])

parses_as_u16(s) ==
    /\ s # <<>>
    /\ \A k \in 1..Len(s) : is_digit(s[k])
    /\ Len(s) <= 5
    /\ nat_value(s) <= 65535
\* a major version that reads the legacy 1.x scheme as x
major_version_legacy(full_version) ==
    IF nat_value(first_field(full_version)) = 1 /\ Len(Fields(full_version, ".")) > 1
    THEN nat_value(Fields(full_version, ".")[2])
    ELSE nat_value(first_field(full_version))

\* major_version, where it does not panic
major_version(full_version) == nat_value(first_field(full_version))

\* the names read_dir can list that end with ".jsa" / ".jar"
JsaNames == {"classes.jsa"}
JarNames == {"jruby.jar", "jruby-complete.jar"}

\* the entries of a directory: fs::read_dir
dir_entries(d) ==
    {p \in fs : p.comps # <<>> /\ parent(p) = Some(d)}

\* LaunchOptions::java_has_appcds, given the java home (JSA_DIR is bin)
java_has_appcds(java_home) ==
    /\ exist_test(dir_builder(java_home, <<"bin", "server">>))
    /\ \E p \in dir_entries(dir_builder(java_home, <<"bin", "server">>)) :
         p.comps[Len(p.comps)] \in JsaNames

\* the java command determine_java_location settles on
java_command(o, e) ==
    IF IsSome(e.java_cmd) THEN Some(Unwrap(e.java_cmd))
    ELSE IF IsSome(o.jdk_home)
         THEN Some(join(join(PathBufFrom(Unwrap(o.jdk_home)), Bin), JavaExe))
    ELSE IF IsSome(e.java_home)
         THEN Some(join(join(Unwrap(e.java_home), Bin), JavaExe))
    ELSE find_from_path(JavaExe, e.path)

has_grandparent(p) == IsSome(parent(p)) /\ IsSome(parent(Unwrap(parent(p))))

\* the java home: the parent of the parent of the command
java_home_of(loc) == Unwrap(parent(Unwrap(parent(loc))))

\* the ways determine_java_location panics: loc.parent().unwrap(), the
\* unwrap of java_home in java_is_modular, "Cannot determine a Java home
\* directory", and the unwrap of parse::<u16> in major_version
ProbePanics(o, e) ==
    LET java == java_command(o, e)
    IN  \/ java = None
        \/ ~has_grandparent(Unwrap(java))
        \/ find_java_version(java_home_of(Unwrap(java))) = None
        \/ ~parses_as_u16(first_field(
               Unwrap(find_java_version(java_home_of(Unwrap(java))))))

\* a modularity test that looks at lib/modules alone
java_is_modular_modules_only(java_home) ==
    exist_test(dir_builder(java_home, <<"lib", "modules">>))

\* java_is_modular, given the java home
java_is_modular(java_home) ==
    \/ exist_test(dir_builder(java_home, <<"lib", "modules">>))
    \/ exist_test(dir_builder(java_home, <<"release">>))

\* version decisions with one threshold for both flags
make_version_decisions_one_gate(o) ==
    [o EXCEPT !.appcds_autogenerate = o.java_major_version >= 19,
              !.native_access = o.java_major_version >= 22,
              !.unsafe_memory = o.java_major_version >= 22]

\* make_version_decisions
make_version_decisions(o) ==
    [o EXCEPT !.appcds_autogenerate = o.java_major_version >= 19,
              !.native_access = o.java_major_version >= 22,
              !.unsafe_memory = o.java_major_version >= 23]

\* the fields determine_java_location sets when it returns Ok(())
Probed(o, e) ==
    LET java    == java_command(o, e)
        home    == java_home_of(Unwrap(java))
        version == Unwrap(find_java_version(home))
        major   == major_version(version)
        appcds  == java_has_appcds(home)
    IN  [make_version_decisions(
            [o EXCEPT
               !.java_home = Some(home),
               !.java_is_modular = java_is_modular(home),
               !.java_version = version,
               !.java_major_version = major])
         EXCEPT
           !.java_has_appcds = appcds,
           !.use_appcds = appcds,
           !.use_jsa_file = appcds,
           !.java_location = java]

\* new: options.determine_java_location(&env)?
DetermineJavaLocation ==
    /\ pc = "located"
    /\ IF ProbePanics(options, env)
       THEN pc' = "panic" /\ UNCHANGED options
       ELSE pc' = "probed" /\ options' = Probed(options, env)
    /\ UNCHANGED <<env, pos, err, fs, exe_path, dir, os>>
    /\ SplitVarsUnchanged

---------------------------------------------------------------------------
(* setup_logging and prepare_options *)

\* the log destination that stands for standard output
StdoutName == <<"_", "_", "s", "t", "d", "o", "u", "t", "_", "_">>

\* new: `if options.launcher_logfile.is_some() { options.setup_logging() }`;
\* file_logger::init removes an old file and creates the new one, and
\* setup_logging panics when the file cannot be created
SetupLogging ==
    /\ pc = "parsed"
    /\ IsSome(options.launcher_logfile)
    /\ os.logger = "none"
    /\ IF Unwrap(options.launcher_logfile) = StdoutName
       THEN /\ os' = [os EXCEPT !.logger = "stdout"]
            /\ UNCHANGED <<pc, fs>>
       ELSE \/ /\ os' = [os EXCEPT !.logger = "file"]
               /\ fs' = fs \cup {PathBufFrom(Unwrap(options.launcher_logfile))}
               /\ UNCHANGED pc
            \/ /\ pc' = "panic"
               /\ UNCHANGED <<os, fs>>
    /\ UNCHANGED <<env, options, pos, err, exe_path, dir>>
    /\ SplitVarsUnchanged

\* XSS_DEFAULT_OPT and SHELL (Windows)
XSS_DEFAULT_OPT == "-Xss2048k"
SHELL == "-Djruby.shell=cmd.exe"

\* LaunchOptions::jruby_home(subdirs)
jruby_home_dir(o, subdirs) == dir_builder(Unwrap(o.jruby_home), subdirs)

InSeq(x, s) == \E k \in 1..Len(s) : s[k] = x

\* add_to_class_path(path, only_if_exists)
add_to_class_path(o, path, only_if_exists) ==
    IF only_if_exists /\ ~exist_test(path) THEN o
    ELSE IF InSeq(Display(path), o.classpath) THEN o
    ELSE IF InSeq(Display(path), o.boot_classpath) THEN o
    ELSE [o EXCEPT !.classpath = Append(@, Display(path))]

\* add_to_boot_class_path(path, only_if_exists)
add_to_boot_class_path(o, path, only_if_exists) ==
    IF o.no_boot_classpath THEN add_to_class_path(o, path, only_if_exists)
    ELSE IF only_if_exists /\ ~exist_test(path) THEN o
    ELSE IF InSeq(Display(path), o.boot_classpath) THEN o
    ELSE [o EXCEPT !.boot_classpath = Append(@, Display(path))]
\* a boot archive selection that takes jruby-complete.jar first
construct_boot_classpath_complete_first(o) ==
    LET jruby_complete_jar == jruby_home_dir(o, <<"lib", "jruby-complete.jar">>)
        jruby_jar          == jruby_home_dir(o, <<"lib", "jruby.jar">>)
    IN  IF exist_test(jruby_complete_jar)
        THEN add_to_boot_class_path(o, jruby_complete_jar, FALSE)
        ELSE IF exist_test(jruby_jar) THEN add_to_boot_class_path(o, jruby_jar, TRUE)
        ELSE o

\* construct_boot_classpath: jruby.jar before jruby-complete.jar
construct_boot_classpath(o) ==
    LET jruby_complete_jar == jruby_home_dir(o, <<"lib", "jruby-complete.jar">>)
        jruby_jar          == jruby_home_dir(o, <<"lib", "jruby.jar">>)
    IN  IF exist_test(jruby_jar) THEN add_to_boot_class_path(o, jruby_jar, TRUE)
        ELSE IF exist_test(jruby_complete_jar)
             THEN add_to_boot_class_path(o, jruby_complete_jar, FALSE)
        ELSE o

\* the orders in which read_dir can list the entries of a directory
Listings(d) ==
    LET S == dir_entries(d)
    IN  {l \in [1..Cardinality(S) -> S] :
           \A a, b \in 1..Cardinality(S) : a # b => l[a] # l[b]}

\* add_jars_to_classpath, for one listing of <home>/lib
add_jars_to_classpath(o, listing) ==
    IF ~exist_test(jruby_home_dir(o, <<"lib">>)) THEN o
    ELSE LET jars == SelectSeq(listing,
                        LAMBDA p : p.comps[Len(p.comps)] \in JarNames)
         IN  [o EXCEPT !.classpath = @ \o [k \in 1..Len(jars) |-> Display(jars[k])]]
\* a classpath that takes the explicit entries and the segments of CLASSPATH
explicit_and_ambient(o, e) ==
    LET with_explicit == [o EXCEPT !.classpath = @ \o StrEach(o.classpath_explicit)]
    IN  IF IsSome(e.classpath)
        THEN [with_explicit EXCEPT
                !.classpath = @ \o StrEach(split_paths(Unwrap(e.classpath)))]
        ELSE with_explicit

\* the explicit entries if there are any, else the segments of CLASSPATH
explicit_or_ambient(o, e) ==
    IF o.classpath_explicit = <<>>
    THEN IF IsSome(e.classpath)
         THEN [o EXCEPT !.classpath = @ \o StrEach(split_paths(Unwrap(e.classpath)))]
         ELSE o
    ELSE [o EXCEPT !.classpath = @ \o StrEach(o.classpath_explicit)]
\* the classpath_after entries and an empty entry in every case
after_and_trailing_always(o) ==
    [o EXCEPT !.classpath = Append(o.classpath \o StrEach(o.classpath_after), "")]

\* the classpath_after entries, then the empty entry that stands for the
\* current directory
after_and_trailing(o) ==
    LET with_after == o.classpath \o StrEach(o.classpath_after)
    IN  [o EXCEPT !.classpath =
           IF with_after # <<>> THEN Append(with_after, "") ELSE with_after]

\* prepare_options up to `construct_classpath`, for one listing of lib
classpaths(o, e, listing) ==
    after_and_trailing(
        explicit_or_ambient(
            add_jars_to_classpath(construct_boot_classpath(o), listing), e))

\* OsStringExt::replace(from, to)
replace(s, from, to) == [k \in 1..Len(s) |-> IF s[k] = from THEN to ELSE s[k]]

\* the flags prepare_options pushes before it looks at the jars
identity_flags(o) ==
    (IF IsSome(o.jdk_home)
     THEN <<"-Djdk.home=" \o Str(Unwrap(o.jdk_home))>> ELSE <<>>)
    \o <<"-Djruby.home=" \o Display(Unwrap(o.jruby_home)),
         "-Djruby.script=jruby",
         SHELL,
         "-Djffi.boot.library.path=" \o Display(jruby_home_dir(o, <<"lib", "jni">>))>>
    \o (IF o.xss = None THEN <<XSS_DEFAULT_OPT>> ELSE <<>>)

\* -Dsun.java.command=<boot class with `/` rewritten to `.`>
command_flag(boot_class) ==
    <<"-Dsun.java.command=" \o Str(replace(boot_class, "/", "."))>>

\* --module-path= or -Xbootclasspath/a:, when there is a boot classpath
boot_flags(o) ==
    IF o.boot_classpath = <<>> THEN <<>>
    ELSE IF o.java_is_modular
         THEN <<"--module-path=" \o join_paths(o.boot_classpath)>>
         ELSE <<"-Xbootclasspath/a:" \o join_paths(o.boot_classpath)>>

ADD_OPENS ==
    <<"--add-opens", "java.base/java.io=org.jruby.dist",
      "--add-opens", "java.base/java.nio.channels=org.jruby.dist",
      "--add-opens", "java.base/sun.nio.ch=org.jruby.dist",
      "--add-opens", "java.management/sun.management=org.jruby.dist">>

\* module options that leave out the last --add-opens pair
module_flags_three(o) ==
    IF ~o.java_is_modular THEN <<>>
    ELSE IF exist_test(jruby_home_dir(o, <<"bin", ".jruby.module_opts">>))
         THEN <<"@" \o Display(jruby_home_dir(o, <<"bin", ".jruby.module_opts">>))>>
         ELSE SubSeq(ADD_OPENS, 1, 6)

\* the options file, or the four --add-opens pairs, of a modular runtime
module_flags(o) ==
    IF ~o.java_is_modular THEN <<>>
    ELSE IF exist_test(jruby_home_dir(o, <<"bin", ".jruby.module_opts">>))
         THEN <<"@" \o Display(jruby_home_dir(o, <<"bin", ".jruby.module_opts">>))>>
         ELSE ADD_OPENS

\* the archive: the override of the environment, else
\* <home>/lib/jruby-java<version>.jsa whether it exists or not
jsa_file(o, e) ==
    IF IsSome(e.jruby_jsa_file) THEN Unwrap(e.jruby_jsa_file)
    ELSE jruby_home_dir(o, <<"lib", "jruby-java" \o Str(o.java_version) \o ".jsa">>)

\* is_newer unwraps the metadata of both files
RegeneratePanics(o, e) ==
    /\ o.use_jsa_file
    /\ o.regenerate_jsa_file
    /\ \/ ~exist_test(jruby_home_dir(o, <<"lib", "jruby.jar">>))
       \/ ~exist_test(jsa_file(o, e))

\* regenerate_jsa_file after the staleness test
regenerate_after(o) ==
    IF o.use_jsa_file /\ o.regenerate_jsa_file THEN os.newer
    ELSE o.regenerate_jsa_file

\* shared-archive flags that stop at the first of the three that applies
cds_flags_exclusive(o, e) ==
    IF ~o.use_jsa_file THEN <<>>
    ELSE (IF o.appcds_autogenerate THEN <<"-XX:+AutoCreateSharedArchive">>
          ELSE IF regenerate_after(o)
          THEN <<"-XX:ArchiveClassesAtExit=" \o Display(jsa_file(o, e))>>
          ELSE <<"-XX:SharedArchiveFile=" \o Display(jsa_file(o, e))>>)
         \o (IF o.log_cds
             THEN <<"-Xlog:cds=info:file=" \o Display(jsa_file(o, e)),
                    "-Xlog:cds+dynamic=info:file=" \o Display(jsa_file(o, e))>>
             ELSE <<"-Xlog:cds=off", "-Xlog:cds+dynamic=off">>)

\* the shared-archive and CDS logging flags, when the archive is in use
cds_flags(o, e) ==
    IF ~o.use_jsa_file THEN <<>>
    ELSE (IF o.appcds_autogenerate THEN <<"-XX:+AutoCreateSharedArchive">> ELSE <<>>)
         \o (IF regenerate_after(o) /\ ~o.appcds_autogenerate
             THEN <<"-XX:ArchiveClassesAtExit=" \o Display(jsa_file(o, e))>>
             ELSE <<"-XX:SharedArchiveFile=" \o Display(jsa_file(o, e))>>)
         \o (IF o.log_cds
             THEN <<"-Xlog:cds=info:file=" \o Display(jsa_file(o, e)),
                    "-Xlog:cds+dynamic=info:file=" \o Display(jsa_file(o, e))>>
             ELSE <<"-Xlog:cds=off", "-Xlog:cds+dynamic=off">>)

\* the flags gated by the major version alone
version_flags(o) ==
    (IF o.native_access THEN <<"--enable-native-access=org.jruby.dist">> ELSE <<>>)
    \o (IF o.unsafe_memory THEN <<"--sun-misc-unsafe-memory-access=allow">> ELSE <<>>)

\* the classpath as -cp <classpath> or as -Djava.class.path=<classpath>
classpath_flags(o) ==
    IF o.fork_java THEN <<"-cp", join_paths(o.classpath)>>
    ELSE <<"-Djava.class.path=" \o join_paths(o.classpath)>>

\* env::join_paths fails on a path that holds a double quote; the scan and
\* split_paths yield none, -J-cp / -Xcp:a can
join_paths_fails(o) ==
    \E t \in {o.classpath_after[k] : k \in 1..Len(o.classpath_after)}
             \cup {o.classpath_explicit[k] : k \in 1..Len(o.classpath_explicit)} :
        InSeq("\"", t)

\* what prepare_options leaves in LaunchOptions when it returns Ok(()), for
\* one listing of <home>/lib
Prepared(o, e, listing) ==
    LET cp   == classpaths(o, e, listing)
        boot == IF IsSome(cp.boot_class) THEN cp.boot_class ELSE Some(MAIN_CLASS)
    IN  [cp EXCEPT
           !.boot_class = boot,
           !.jruby_jsa_file = Some(jsa_file(o, e)),
           !.regenerate_jsa_file = regenerate_after(o),
           !.java_opts =
               StrEach(o.java_opts)
               \o identity_flags(o)
               \o command_flag(Unwrap(boot))
               \o boot_flags(cp)
               \o module_flags(o)
               \o cds_flags(o, e)
               \o version_flags(o)
               \o classpath_flags(cp)]

\* new: options.prepare_options(&env)?
PrepareOptions ==
    /\ pc = "probed"
    /\ IF RegeneratePanics(options, env)
       THEN pc' = "panic" /\ UNCHANGED <<options, err>>
       ELSE IF join_paths_fails(options)
       THEN /\ pc' = "error"
            /\ err' = "path segment contains a double quote"
            /\ UNCHANGED options
       ELSE /\ pc' = "assembled"
            /\ err' = err
            /\ \E listing \in Listings(jruby_home_dir(options, <<"lib">>)) :
                 options' = Prepared(options, env, listing)
    /\ UNCHANGED <<env, pos, fs, exe_path, dir, os>>
    /\ SplitVarsUnchanged

---------------------------------------------------------------------------
(* launch_options::new from the command line to the assembled options *)

OptJava == Path(TRUE, <<"opt", "java">>)
OptJavaBin == Path(TRUE, <<"opt", "java", "bin">>)
JavaRelease == dir_builder(OptJava, <<"release">>)
JavaModules == dir_builder(OptJava, <<"lib", "modules">>)
JavaServer == dir_builder(OptJava, <<"bin", "server">>)
JavaServerJsa == dir_builder(OptJava, <<"bin", "server", "classes.jsa">>)
JavaBinExe == dir_builder(OptJava, <<"bin", "java.exe">>)

\* the command lines of the launches, argv0 left out
LaunchArgs ==
    {<<>>,
     <<J_cp, XJar>>, <<J_classpath, XJar, J_cp, YJar>>, <<Xcp_a, YJar>>,
     <<J_cp, XJar, Xcp_a, YJar>>, <<Xcp_p, XJar>>, <<J_cp, QuoteJar>>, <<J_cp>>,
     <<Xxss1m>>, <<Xss4m>>, <<Xnobootclasspath>>, <<Xfork_java>>,
     <<NoCache>>, <<LogCache>>, <<Cache>>, <<Xversion>>, <<DashDash, Foo>>,
     <<DashX>>, <<Xproperties>>, <<Server>>, <<Xtrace, OutLog>>,
     <<Xtrace, StdoutName>>, <<Xjdkhome, JdkHomeTok>>}

\* the command lines that are run with CLASSPATH or JAVA_STACK set as well
LaunchArgsWithEnv == {<<>>, <<J_cp, XJar>>, <<Xcp_a, YJar>>, <<Xxss1m>>}

LaunchEnvs ==
    {[classpath |-> Some(ClasspathAB), java_stack |-> None],
     [classpath |-> Some(ClasspathQuoted), java_stack |-> None],
     [classpath |-> None, java_stack |-> Some(Xss4m)]}

PlainEnv == [classpath |-> None, java_stack |-> None]

LaunchCases ==
    {[args |-> a, vars |-> PlainEnv] : a \in LaunchArgs}
    \cup {[args |-> a, vars |-> v] : a \in LaunchArgsWithEnv, v \in LaunchEnvs}

\* how the executable is found: named by the operating system, through
\* JRUBY_HOME, from an absolute argv0, or not at all
HomeCases ==
    {[argv0 |-> Argv0Bare, jruby_home |-> None, exe_path |-> Some(AbsExe)],
     [argv0 |-> Argv0Bare, jruby_home |-> Some(OptJruby), exe_path |-> None],
     [argv0 |-> AbsExe, jruby_home |-> None, exe_path |-> None],
     [argv0 |-> Argv0Bare, jruby_home |-> None, exe_path |-> None]}

\* what every installation holds, and what it may hold
InstallBase == {OptJruby, OptJrubyBin, AbsExe}
InstallLib == dir_builder(OptJruby, <<"lib">>)
InstallLibFiles ==
    {dir_builder(OptJruby, <<"lib", "jruby.jar">>),
     dir_builder(OptJruby, <<"lib", "jruby-complete.jar">>),
     dir_builder(OptJruby, <<"lib", "jni">>),
     dir_builder(OptJruby, <<"lib", "native">>)}
InstallModuleOpts == dir_builder(OptJruby, <<"bin", ".jruby.module_opts">>)

Installs ==
    {InstallBase \cup lib \cup opts :
        lib \in {{}} \cup {{InstallLib} \cup s : s \in SUBSET InstallLibFiles},
        opts \in {{}, {InstallModuleOpts}}}

\* the java installations and the ways to them: JAVA_HOME, PATH, JAVACMD,
\* with the files of the java home and the lines of its release file
JavaCases ==
    {[java_cmd |-> None, java_home |-> Some(OptJava), path |-> None,
      files |-> {JavaBinExe, JavaRelease, JavaModules},
      release |-> <<ReleaseOther, Release17>>, newer |-> FALSE],
     [java_cmd |-> None, java_home |-> Some(OptJava), path |-> None,
      files |-> {JavaBinExe, JavaRelease, JavaModules, JavaServer, JavaServerJsa},
      release |-> <<Release17>>, newer |-> TRUE],
     [java_cmd |-> None, java_home |-> Some(OptJava), path |-> None,
      files |-> {JavaBinExe, JavaRelease, JavaModules, JavaServer, JavaServerJsa},
      release |-> <<Release21, Release17>>, newer |-> FALSE],
     [java_cmd |-> None, java_home |-> Some(OptJava), path |-> None,
      files |-> {JavaBinExe, JavaRelease},
      release |-> <<Release8>>, newer |-> FALSE],
     [java_cmd |-> None, java_home |-> Some(OptJava), path |-> None,
      files |-> {JavaBinExe},
      release |-> <<>>, newer |-> FALSE],
     [java_cmd |-> None, java_home |-> None, path |-> Some(<<UsrBin, OptJavaBin>>),
      files |-> {JavaBinExe, JavaRelease, JavaModules, JavaServer},
      release |-> <<Release23>>, newer |-> FALSE],
     [java_cmd |-> None, java_home |-> None, path |-> Some(<<UsrBin>>),
      files |-> {},
      release |-> <<>>, newer |-> FALSE],
     [java_cmd |-> Some(JavaExe), java_home |-> None, path |-> None,
      files |-> {JavaBinExe, JavaRelease},
      release |-> <<Release17>>, newer |-> FALSE],
     [java_cmd |-> Some(JavaBinExe), java_home |-> None, path |-> None,
      files |-> {JavaBinExe, JavaRelease},
      release |-> <<ReleaseNoDigits>>, newer |-> FALSE],
     [java_cmd |-> None, java_home |-> Some(OptJava), path |-> None,
      files |-> {JavaBinExe, JavaRelease},
      release |-> <<ReleaseOther>>, newer |-> FALSE],
     [java_cmd |-> Some(JavaBinExe), java_home |-> None, path |-> None,
      files |-> {JavaBinExe, JavaRelease},
      release |-> <<Release22>>, newer |-> FALSE]}

\* Environment::from_env for a launch, with the file system and the answers
\* of the operating system this launch meets
FromEnvLaunch ==
    /\ pc = "new"
    /\ \E c \in LaunchCases, h \in HomeCases, j \in JavaCases, inst \in Installs :
         /\ env' = [EmptyEnv(<<h.argv0>> \o c.args) EXCEPT
                      !.classpath = c.vars.classpath,
                      !.java_stack = c.vars.java_stack,
                      !.jruby_home = h.jruby_home,
                      !.java_cmd = j.java_cmd,
                      !.java_home = j.java_home,
                      !.path = j.path]
         /\ exe_path' = h.exe_path
         /\ fs' = inst \cup j.files
         /\ os' = [os EXCEPT !.release = j.release, !.newer = j.newer]
    /\ pc' = "parse"
    /\ UNCHANGED <<options, pos, err, dir>>
    /\ SplitVarsUnchanged

LaunchNext ==
    \/ FromEnvLaunch
    \/ ParseNext
    \/ SetupLogging
    \/ HomeFromJrubyHome
    \/ HomeFromExecutablePath
    \/ HomeFromArgv0
    \/ HomeDerivedExists
    \/ SetJrubyHome
    \/ DetermineJavaLocation
    \/ PrepareOptions

\* launch_options::new on the launches of the cases above
SpecLaunch == ParseInit /\ [][LaunchNext]_vars

LaunchTypeOK == pc \in {"new", "parse", "scan", "parsed", "found", "derived",
                        "located", "probed", "assembled", "error", "panic", "exit2"}

---------------------------------------------------------------------------
(* Properties of the assembled options *)

\* the text of every entry of <home>/lib
LibTexts == {Display(p) : p \in dir_entries(jruby_home_dir(options, <<"lib">>))}

\* the length of the longest prefix of the classpath that came from
\* <home>/lib
RECURSIVE LibPrefixLen(_)
LibPrefixLen(cp) ==
    IF cp = <<>> \/ Head(cp) \notin LibTexts THEN 0 ELSE 1 + LibPrefixLen(Tail(cp))

\* the classpath after its entries from <home>/lib
AfterLib(cp) == SubSeq(cp, LibPrefixLen(cp) + 1, Len(cp))

\* C13: with at least one -J-cp / -J-classpath entry, the classpath after
\* the archives of lib is the explicit entries, the -Xcp:a entries and the
\* trailing empty entry: no segment of CLASSPATH is added; with none and
\* CLASSPATH set, the segments of CLASSPATH stand there in order instead.
C13_ExplicitClasspathWins ==
    pc = "assembled" =>
        LET chosen == IF options.classpath_explicit # <<>>
                      THEN StrEach(options.classpath_explicit)
                      ELSE IF IsSome(env.classpath)
                      THEN StrEach(split_paths(Unwrap(env.classpath)))
                      ELSE <<>>
            rest   == chosen \o StrEach(options.classpath_after)
        IN  AfterLib(options.classpath) =
                IF options.classpath = <<>> THEN <<>> ELSE Append(rest, "")

C13_Witness ==
    /\ pc = "assembled"
    /\ env.classpath = Some(ClasspathAB)
    /\ options.classpath_explicit = <<XJar>>
    /\ InSeq("x.jar", options.classpath)
    /\ ~InSeq("a.jar", options.classpath)
    /\ ~InSeq("b.jar", options.classpath)
    /\ LibPrefixLen(options.classpath) = 2

\* the native-library flag prepare_options builds from a directory
jffi_flag(d) == "-Djffi.boot.library.path=" \o Display(d)

\* C14: assembly ends in a fatal error when neither <home>/lib/jni nor
\* <home>/lib/native exists, and the native-library property is emitted
\* only for a directory that exists.
C14_JniDirRequired ==
    LET jni    == jruby_home_dir(options, <<"lib", "jni">>)
        native == jruby_home_dir(options, <<"lib", "native">>)
    IN  pc = "assembled" =>
            /\ exist_test(jni) \/ exist_test(native)
            /\ \A d \in {jni, native} :
                   InSeq(jffi_flag(d), options.java_opts) => exist_test(d)

\* the stack-size settings of the launches
StackSettings == {XSS_DEFAULT_OPT, Str(Xss4m), Str(Xxss1m)}

\* how many of the final flags set the stack size
StackSettingCount(flags) ==
    Cardinality({k \in DOMAIN flags : flags[k] \in StackSettings})

\* C15: the default -Xss2048k is emitted only if the user supplied no stack
\* size; a stack size the user supplied (-Xxss... on the command line or
\* JAVA_STACK) is in the final flags, the default is not, and the final
\* flags never hold two stack-size settings.
C15_SingleStackSize ==
    pc = "assembled" =>
        LET supplied == IsSome(options.xss) \/ IsSome(env.java_stack)
        IN  /\ InSeq(XSS_DEFAULT_OPT, options.java_opts) => ~supplied
            /\ IsSome(env.java_stack)
                   => InSeq(Str(Unwrap(env.java_stack)), options.java_opts)
            /\ IsSome(options.xss)
                   => InSeq(Str(Unwrap(options.xss)), options.java_opts)
            /\ StackSettingCount(options.java_opts) <= 1

\* the part of C15 the code keeps: the default is left out when -Xxss was given
C15_DefaultOnlyWithoutXss ==
    pc = "assembled" =>
        (InSeq(XSS_DEFAULT_OPT, options.java_opts) <=> options.xss = None)

AutoCreateFlag == "-XX:+AutoCreateSharedArchive"
ArchiveAtExitFlag(file) == "-XX:ArchiveClassesAtExit=" \o Display(file)
SharedArchiveFlag(file) == "-XX:SharedArchiveFile=" \o Display(file)

\* the archive flags among the final flags, in their order
ArchiveFlags(flags, file) ==
    LET is_archive_flag(f) ==
            f \in {AutoCreateFlag, ArchiveAtExitFlag(file), SharedArchiveFlag(file)}
    IN  SelectSeq(flags, is_archive_flag)

\* C16 as stated: with the shared cache in use exactly one archive flag is
\* emitted, the first that applies of AutoCreateSharedArchive (autogenerate),
\* ArchiveClassesAtExit (regeneration requested), SharedArchiveFile.
C16_ExactlyOneArchiveFlag ==
    (pc = "assembled" /\ options.use_jsa_file) =>
        LET file == Unwrap(options.jruby_jsa_file)
        IN  ArchiveFlags(options.java_opts, file) =
                IF options.appcds_autogenerate THEN <<AutoCreateFlag>>
                ELSE IF options.regenerate_jsa_file THEN <<ArchiveAtExitFlag(file)>>
                ELSE <<SharedArchiveFlag(file)>>

\* C16: with the shared cache in use and auto-creation, the final flags hold
\* AutoCreateSharedArchive followed by SharedArchiveFile for the archive;
\* without auto-creation they hold exactly one archive flag,
\* ArchiveClassesAtExit if regeneration is still requested after the
\* staleness test, else SharedArchiveFile; without the cache, none.
C16_ArchiveFlags ==
    pc = "assembled" =>
        LET file == Unwrap(options.jruby_jsa_file)
        IN  ArchiveFlags(options.java_opts, file) =
                IF ~options.use_jsa_file THEN <<>>
                ELSE IF options.appcds_autogenerate
                THEN <<AutoCreateFlag, SharedArchiveFlag(file)>>
                ELSE IF options.regenerate_jsa_file THEN <<ArchiveAtExitFlag(file)>>
                ELSE <<SharedArchiveFlag(file)>>

C16_Witness ==
    /\ pc = "assembled"
    /\ options.use_jsa_file
    /\ options.appcds_autogenerate
    /\ options.java_major_version = 21
    /\ InSeq(AutoCreateFlag, options.java_opts)
    /\ InSeq(SharedArchiveFlag(Unwrap(options.jruby_jsa_file)), options.java_opts)

\* the same without auto-creation: Java 17 with the shared cache
C16_WitnessNoAutoCreate ==
    /\ pc = "assembled"
    /\ options.use_jsa_file
    /\ ~options.appcds_autogenerate
    /\ ArchiveFlags(options.java_opts, Unwrap(options.jruby_jsa_file))
           = <<SharedArchiveFlag(Unwrap(options.jruby_jsa_file))>>

JrubyJar == jruby_home_dir(options, <<"lib", "jruby.jar">>)
JrubyCompleteJar == jruby_home_dir(options, <<"lib", "jruby-complete.jar">>)

\* the flags that could carry a boot classpath made of the two archives
BootFlagTexts ==
    {prefix \o join_paths(cp) :
        prefix \in {"--module-path=", "-Xbootclasspath/a:"},
        cp \in {<<Display(JrubyJar)>>, <<Display(JrubyCompleteJar)>>,
                <<Display(JrubyJar), Display(JrubyCompleteJar)>>,
                <<Display(JrubyCompleteJar), Display(JrubyJar)>>}}

\* C17: jruby.jar is the boot archive whenever it exists, also next to
\* jruby-complete.jar, which is then not added; jruby-complete.jar is the
\* boot archive only when jruby.jar is missing; with neither, assembly
\* still succeeds, the boot classpath is empty and neither the module-path
\* nor the bootclasspath flag is emitted.  With -Xnobootclasspath the
\* selected archive heads the classpath instead.
C17_BootArchiveSelection ==
    /\ [](pc = "assembled" =>
        LET selected == IF exist_test(JrubyJar) THEN <<Display(JrubyJar)>>
                        ELSE IF exist_test(JrubyCompleteJar)
                        THEN <<Display(JrubyCompleteJar)>>
                        ELSE <<>>
            boot_flag == SelectSeq(options.java_opts, LAMBDA f : f \in BootFlagTexts)
        IN  /\ options.boot_classpath =
                   IF options.no_boot_classpath THEN <<>> ELSE selected
            /\ (options.no_boot_classpath /\ selected # <<>>)
                   => Head(options.classpath) = Head(selected)
            /\ boot_flag =
                   IF options.boot_classpath = <<>> THEN <<>>
                   ELSE IF options.java_is_modular
                   THEN <<"--module-path=" \o Head(selected)>>
                   ELSE <<"-Xbootclasspath/a:" \o Head(selected)>>)
    /\ [][(/\ pc = "probed"
            /\ ~exist_test(JrubyJar) /\ ~exist_test(JrubyCompleteJar)
            /\ ~join_paths_fails(options) /\ ~RegeneratePanics(options, env))
              => pc' = "assembled"]_vars

C17_Witness ==
    /\ pc = "assembled"
    /\ exist_test(JrubyJar) /\ exist_test(JrubyCompleteJar)
    /\ options.boot_classpath = <<Display(JrubyJar)>>
    /\ InSeq("--module-path=" \o Display(JrubyJar), options.java_opts)

\* only jruby-complete.jar exists
C17_WitnessCompleteOnly ==
    /\ pc = "assembled"
    /\ ~exist_test(JrubyJar) /\ exist_test(JrubyCompleteJar)
    /\ options.boot_classpath = <<Display(JrubyCompleteJar)>>

\* neither archive exists in a lib directory that does
C17_WitnessNeither ==
    /\ pc = "assembled"
    /\ exist_test(jruby_home_dir(options, <<"lib">>))
    /\ ~exist_test(JrubyJar) /\ ~exist_test(JrubyCompleteJar)
    /\ options.boot_classpath = <<>>

ModuleOptsFile == jruby_home_dir(options, <<"bin", ".jruby.module_opts">>)
ModuleOptsFlag == "@" \o Display(ModuleOptsFile)

\* the position of the first occurrence of x in s, 0 when there is none
IndexOf(x, s) ==
    IF InSeq(x, s) THEN CHOOSE k \in DOMAIN s : s[k] = x /\ \A m \in 1..(k - 1) : s[m] # x
    ELSE 0

\* C18: for a modular runtime the final flags hold exactly one of the
\* options-file directive @<home>/bin/.jruby.module_opts, if that file
\* exists, or the four --add-opens pairs in their fixed order, and they
\* stand right after the module-path flag when there is one; for a runtime
\* that is not modular they hold neither.
C18_ModuleOptions ==
    pc = "assembled" =>
        LET flags  == options.java_opts
            opens  == SelectSeq(flags, LAMBDA f : InSeq(f, ADD_OPENS))
            files  == SelectSeq(flags, LAMBDA f : f = ModuleOptsFlag)
            expect == IF ~options.java_is_modular THEN <<>>
                      ELSE IF exist_test(ModuleOptsFile) THEN <<ModuleOptsFlag>>
                      ELSE ADD_OPENS
            first  == IndexOf(Head(expect), flags)
        IN  /\ opens \o files = expect
            /\ expect # <<>> =>
                 /\ SubSeq(flags, first, first + Len(expect) - 1) = expect
                 /\ options.boot_classpath # <<>> =>
                        flags[first - 1] = "--module-path=" \o join_paths(options.boot_classpath)

C18_Witness ==
    /\ pc = "assembled"
    /\ options.java_is_modular
    /\ ~exist_test(ModuleOptsFile)
    /\ options.boot_classpath # <<>>
    /\ InSeq("java.management/sun.management=org.jruby.dist", options.java_opts)

\* the options file exists
C18_WitnessOptionsFile ==
    /\ pc = "assembled"
    /\ options.java_is_modular
    /\ exist_test(ModuleOptsFile)
    /\ InSeq(ModuleOptsFlag, options.java_opts)
    /\ ~InSeq("--add-opens", options.java_opts)

\* the phase a position of the construction belongs to: ParseArgs (with
\* the optional SetupLogging at its end), LocateHome, ProbeRuntime,
\* AssembleOptions, done
PhaseOf(p) ==
    CASE p \in {"new", "parse", "scan"} -> 1
      [] p = "parsed" -> 2
      [] p \in {"found", "derived"} -> 3
      [] p = "located" -> 4
      [] p = "probed" -> 5
      [] p = "assembled" -> 6
      [] OTHER -> 0

Failed == {"error", "panic", "exit2"}

\* the phases run in order and a failed construction runs nothing more
C19_PhaseOrder ==
    /\ [][pc \notin Failed]_vars
    /\ [][pc' \notin Failed =>
            /\ PhaseOf(pc) <= PhaseOf(pc')
            /\ PhaseOf(pc') <= PhaseOf(pc) + 1]_vars
    /\ [](os.logger # "none" => PhaseOf(pc) # 1)

\* C19: the phases run in the order ParseArgs, optional SetupLogging,
\* LocateHome, ProbeRuntime, AssembleOptions; a phase that fails (bad
\* argument, home not found, runtime version unresolvable, assembly error)
\* stops the construction, and the failure is returned to the orchestrator
\* as an error: the construction never ends in a panic or an exit of its own.
C19_FailuresReturnErrors ==
    /\ C19_PhaseOrder
    /\ [](pc \in Failed => pc = "error" /\ err # "")

\* a runtime whose version cannot be resolved ends the construction in a panic
C19_VersionUnresolvablePanics ==
    /\ pc = "panic"
    /\ IsSome(options.jruby_home)
    /\ IsSome(env.java_home)
    /\ find_java_version(Unwrap(env.java_home)) = None

---------------------------------------------------------------------------
(* win_launch::execute_with_create_process *)

JAVA_NAME == <<"j", "a", "v", "a", ".", "e", "x", "e">>
JAVAW_NAME == <<"j", "a", "v", "a", "w", ".", "e", "x", "e">>
JavaCmd == <<"C", ":", "\\", "o", "p", "t", "\\", "j", "a", "v", "a", "\\", "b", "i", "n", "\\", "j", "a", "v", "a", ".", "e", "x", "e">>
JavaTwiceCmd == <<"C", ":", "\\", "j", "a", "v", "a", ".", "e", "x", "e", "\\", "j", "a", "v", "a", ".", "e", "x", "e">>
WhoamiCmd == <<"C", ":", "/", "W", "i", "n", "d", "o", "w", "s", "/", "S", "y", "s", "t", "e", "m", "3", "2", "/", "w", "h", "o", "a", "m", "i", ".", "e", "x", "e">>

\* OsStringExt::replace_str from window i on, with the text up to `last`
\* already copied (both 0-based).  JAVA_NAME, the only `from` of the
\* launcher, cannot overlap itself, so `last` never passes a match.
RECURSIVE replace_str_from(_, _, _, _, _)
replace_str_from(v, from, to, k, last) ==
    IF k + Len(from) > Len(v) THEN SubSeq(v, last + 1, Len(v))
    ELSE IF SubSeq(v, k + 1, k + Len(from)) = from
         THEN SubSeq(v, last + 1, k) \o to
              \o replace_str_from(v, from, to, k + 1, k + Len(from))
         ELSE replace_str_from(v, from, to, k + 1, last)

\* OsStringExt::replace_str(from, to)
replace_str(s, from, to) == replace_str_from(s, from, to, 0, 0)

\* quote_os_string
quote_os_string(string) == "\"" \o string \o "\""

\* quote_vec: every element quoted, joined by one space
quote_vec(vector) ==
    JoinStr([k \in DOMAIN vector |-> quote_os_string(vector[k])], " ")

\* the commands, argument vectors and exit codes of the hand-offs
WinCommands == {JavaCmd, JavaTwiceCmd, WhoamiCmd}
WinArgs == {<<>>, <<XSS_DEFAULT_OPT, Str(MAIN_CLASS)>>, <<"-e", "puts 1">>}
STILL_ACTIVE == 259
ExitCodes == {0, 1, 2, STILL_ACTIVE}

WinInit ==
    /\ env = EmptyEnv(<<>>)
    /\ options = DefaultOptions
    /\ pos = 1
    /\ pc = "execute"
    /\ err = ""
    /\ fs = {} /\ exe_path = None /\ dir = None /\ os = OsInit
    /\ vec = <<>> /\ i = 0 /\ items = <<>> /\ separator = ""

WinVarsUnchanged ==
    /\ UNCHANGED <<env, options, pos, err, fs, exe_path, dir>>
    /\ SplitVarsUnchanged

\* a call execute_with_create_process(command, args), from a process that
\* has a console window or has none
ExecuteCall ==
    /\ pc = "execute"
    /\ \E c \in WinCommands, a \in WinArgs, attached \in BOOLEAN :
         os' = [os EXCEPT !.command = c, !.args = a, !.console = attached]
    /\ pc' = "win_build"
    /\ WinVarsUnchanged

\* lines 136-147: javaw.exe for java.exe without a console, then the
\* quoted command line
BuildCommandLine ==
    /\ pc = "win_build"
    /\ LET command == IF ~os.console
                      THEN replace_str(os.command, JAVA_NAME, JAVAW_NAME)
                      ELSE os.command
       IN  os' = [os EXCEPT !.command = command,
                            !.command_line = quote_vec(<<Str(command)>> \o os.args)]
    /\ pc' = "win_create"
    /\ WinVarsUnchanged

\* a CreateProcessW that starts the child running
CreateProcessW_Running ==
    /\ pc = "win_create"
    /\ \/ /\ os' = [os EXCEPT !.child = "running",
                              !.handles = {"hProcess", "hThread"}]
          /\ pc' = "win_handler"
       \/ /\ pc' = "panic"
          /\ os' = os
    /\ WinVarsUnchanged

\* CreateProcessW with CREATE_SUSPENDED: the child exists with its primary
\* thread suspended, or the call fails and the launcher panics
CreateProcessW ==
    /\ pc = "win_create"
    /\ \/ /\ os' = [os EXCEPT !.child = "suspended",
                              !.handles = {"hProcess", "hThread"}]
          /\ pc' = "win_handler"
       \/ /\ pc' = "panic"
          /\ os' = os
    /\ WinVarsUnchanged

\* SetConsoleCtrlHandler(None, true): a failure is logged and nothing more
SetConsoleCtrlHandler ==
    /\ pc = "win_handler"
    /\ \E ok \in BOOLEAN :
         os' = [os EXCEPT !.handler = TRUE, !.handler_ok = ok]
    /\ pc' = "win_resume"
    /\ WinVarsUnchanged

\* ResumeThread(pi.hThread)
ResumeThread ==
    /\ pc = "win_resume"
    /\ os' = [os EXCEPT !.child = IF @ = "suspended" THEN "running" ELSE @]
    /\ pc' = "win_wait"
    /\ WinVarsUnchanged

\* the child, once it runs, exits with a code of its own
ChildExits ==
    /\ os.child = "running"
    /\ \E code \in ExitCodes :
         os' = [os EXCEPT !.child = "exited", !.exit_code = code]
    /\ pc' = pc
    /\ WinVarsUnchanged

\* WaitForSingleObject(pi.hProcess, INFINITE) returns when the child has exited
WaitForSingleObject ==
    /\ pc = "win_wait"
    /\ os.child = "exited"
    /\ os' = [os EXCEPT !.waited = TRUE]
    /\ pc' = "win_exit_code"
    /\ WinVarsUnchanged

\* a GetExitCodeProcess that leaves ret_code as it was initialised
GetExitCodeProcess_Untouched ==
    /\ pc = "win_exit_code"
    /\ os' = [os EXCEPT !.ret = 0]
    /\ pc' = "win_close"
    /\ WinVarsUnchanged

\* GetExitCodeProcess(pi.hProcess, ret_code): the exit code of a process
\* that has exited, STILL_ACTIVE of one that has not
GetExitCodeProcess ==
    /\ pc = "win_exit_code"
    /\ os' = [os EXCEPT !.ret = IF os.child = "exited" THEN os.exit_code
                                ELSE STILL_ACTIVE]
    /\ pc' = "win_close"
    /\ WinVarsUnchanged

\* CloseHandle on both handles, and the return of *ret_code
CloseHandlesAndReturn ==
    /\ pc = "win_close"
    /\ os' = [os EXCEPT !.handles = {}]
    /\ pc' = "win_returned"
    /\ WinVarsUnchanged

WinNext ==
    \/ ExecuteCall
    \/ BuildCommandLine
    \/ CreateProcessW
    \/ SetConsoleCtrlHandler
    \/ ResumeThread
    \/ ChildExits
    \/ WaitForSingleObject
    \/ GetExitCodeProcess
    \/ CloseHandlesAndReturn

\* execute_with_create_process on the calls above
SpecWinLaunch == WinInit /\ [][WinNext]_vars

\* javaw.exe stands for every java.exe of the command when there is no console
WinCommandLineOK ==
    pc = "win_create" =>
        /\ os.console => os.command \in WinCommands
        /\ ~os.console => ~(\E k \in 0..(Len(os.command) - Len(JAVA_NAME)) :
                              SubSeq(os.command, k + 1, k + Len(JAVA_NAME)) = JAVA_NAME)

\* C20: the child is created suspended; its primary thread is resumed, and
\* so the child runs, only after the call that registers the console
\* control handler has returned; the exit code is read only after the wait
\* for the exit of the child, and the value returned is the exit code of
\* the child.
C20_ChildHandOffOrder ==
    /\ [][(os.child = "none" /\ os.child' # "none")
              => os.child' = "suspended" /\ pc = "win_create"]_vars
    /\ [](os.child \in {"running", "exited"} => os.handler)
    /\ [][(os.child = "suspended" /\ os.child' # "suspended")
              => pc = "win_resume" /\ os.handler /\ os.child' = "running"]_vars
    /\ [][pc = "win_exit_code" => os.waited /\ os.child = "exited"]_vars
    /\ [](pc = "win_returned"
              => os.child = "exited" /\ os.ret = os.exit_code /\ os.handles = {})

C20_Witness ==
    /\ pc = "win_returned"
    /\ os.handler /\ os.waited
    /\ os.exit_code = 1 /\ os.ret = 1
    /\ ~os.console
    /\ os.command_line = "\"C:\\opt\\java\\bin\\javaw.exe\" \"-Xss2048k\" \"org/jruby/Main\""

\* the registration failed and was only logged
C20_WitnessHandlerFailed ==
    /\ pc = "win_returned"
    /\ os.handler /\ ~os.handler_ok
    /\ os.ret = STILL_ACTIVE

\* the archives of <home>/lib, as the scan of lib sees them
LibJars ==
    {p \in dir_entries(jruby_home_dir(options, <<"lib">>)) :
        p.comps[Len(p.comps)] \in JarNames}

\* the entries the launch gives the classpath besides the archives of lib:
\* the explicit entries or else the segments of CLASSPATH, then -Xcp:a
GivenEntries ==
    (IF options.classpath_explicit # <<>>
     THEN StrEach(options.classpath_explicit)
     ELSE IF IsSome(env.classpath)
     THEN StrEach(split_paths(Unwrap(env.classpath)))
     ELSE <<>>)
    \o StrEach(options.classpath_after)

\* C21: after assembly the classpath is empty, when the launch had no
\* archive in lib and no entry to give, or it is the archives of lib, the
\* explicit-or-ambient entries and the -Xcp:a entries, in that order,
\* followed by exactly one empty entry that the assembler appended.
C21_TrailingEmptySegment ==
    pc = "assembled" =>
        LET cp == options.classpath
            n  == LibPrefixLen(cp)
        IN  IF LibJars = {} /\ GivenEntries = <<>>
            THEN cp = <<>>
            ELSE /\ cp # <<>>
                 /\ cp[Len(cp)] = ""
                 /\ SubSeq(cp, n + 1, Len(cp) - 1) = GivenEntries
                 /\ {cp[k] : k \in 1..n} = {Display(p) : p \in LibJars}

C21_Witness ==
    /\ pc = "assembled"
    /\ LibJars # {}
    /\ options.classpath_explicit = <<XJar>>
    /\ options.classpath_after = <<YJar>>
    /\ options.classpath[Len(options.classpath)] = ""
    /\ options.classpath[Len(options.classpath) - 1] = "y.jar"

\* nothing to put on the classpath: it stays empty
C21_WitnessEmpty ==
    /\ pc = "assembled"
    /\ LibJars = {} /\ GivenEntries = <<>>
    /\ options.classpath = <<>>

\* CLASSPATH ends in a separator: its last segment is empty as well
C21_WitnessAmbientEmptySegment ==
    /\ pc = "assembled"
    /\ env.classpath = Some(ClasspathQuoted)
    /\ Len(options.classpath) >= 2
    /\ options.classpath[Len(options.classpath)] = ""
    /\ options.classpath[Len(options.classpath) - 1] = ""

\* the first line of the release descriptor that starts with JAVA_VERSION=
FirstVersionLine ==
    LET hits == {k \in DOMAIN os.release : starts_with(os.release[k], JavaVersionKey)}
    IN  IF hits = {} THEN None
        ELSE Some(os.release[CHOOSE k \in hits : \A m \in hits : k <= m])

\* the major version of the descriptors with a dotted numeric version
MajorOfLine(line) ==
    CASE line = Release17 -> 17
      [] line = Release8  -> 1
      [] line = Release21 -> 21
      [] line = Release22 -> 22
      [] line = Release23 -> 23
      [] OTHER -> 0

DottedNumericLines == {Release17, Release8, Release21, Release22, Release23}

\* C22: the major version is the integer before the first dot of the
\* version on the first JAVA_VERSION= line of <java home>/release (17.0.2
\* gives 17, 1.8.0_292 gives 1); when the descriptor is missing or carries
\* no version that can be parsed the probe ends the launch and no option
\* is assembled.
C22_MajorVersion ==
    /\ [](pc \in {"probed", "assembled"} =>
            /\ exist_test(dir_builder(Unwrap(options.java_home), <<"release">>))
            /\ IsSome(FirstVersionLine)
            /\ Unwrap(FirstVersionLine) \in DottedNumericLines
            /\ options.java_major_version = MajorOfLine(Unwrap(FirstVersionLine)))
    /\ [][pc = "located" =>
            /\ pc' \in {"probed", "panic"}
            /\ pc' = "panic" => options' = options]_vars

C22_Witness ==
    /\ pc = "assembled"
    /\ FirstVersionLine = Some(Release8)
    /\ options.java_version = <<"1", ".", "8", ".", "0">>
    /\ options.java_major_version = 1

\* 17.0.2 behind a line that is not the version
C22_WitnessSeventeen ==
    /\ pc = "assembled"
    /\ os.release = <<ReleaseOther, Release17>>
    /\ options.java_major_version = 17

\* a descriptor without a version line, and one whose version has no digits
C22_WitnessUnparsable ==
    /\ pc = "panic"
    /\ IsSome(options.jruby_home)
    /\ exist_test(JavaRelease)
    /\ os.release \in {<<ReleaseOther>>, <<ReleaseNoDigits>>}

NativeAccessFlag == "--enable-native-access=org.jruby.dist"
UnsafeMemoryFlag == "--sun-misc-unsafe-memory-access=allow"

\* how often a flag stands among the final flags
Occurrences(f, flags) == Cardinality({k \in DOMAIN flags : flags[k] = f})

\* C23: --enable-native-access=org.jruby.dist is among the final flags,
\* once, exactly when the major version is at least 22, and
\* --sun-misc-unsafe-memory-access=allow exactly when it is at least 23;
\* auto-creation of the archive is decided at 19; each decision follows
\* from the major version alone.
C23_VersionGatedFlags ==
    /\ pc \in {"probed", "assembled"} =>
         /\ options.appcds_autogenerate = (options.java_major_version >= 19)
         /\ options.native_access = (options.java_major_version >= 22)
         /\ options.unsafe_memory = (options.java_major_version >= 23)
    /\ pc = "assembled" =>
         /\ Occurrences(NativeAccessFlag, options.java_opts)
                = IF options.java_major_version >= 22 THEN 1 ELSE 0
         /\ Occurrences(UnsafeMemoryFlag, options.java_opts)
                = IF options.java_major_version >= 23 THEN 1 ELSE 0

C23_Witness ==
    /\ pc = "assembled"
    /\ options.java_major_version = 22
    /\ InSeq(NativeAccessFlag, options.java_opts)
    /\ ~InSeq(UnsafeMemoryFlag, options.java_opts)
    /\ options.appcds_autogenerate

\* 23 has both flags, 21 has neither and still creates the archive itself
C23_WitnessTwentyThree ==
    /\ pc = "assembled"
    /\ options.java_major_version = 23
    /\ InSeq(NativeAccessFlag, options.java_opts)
    /\ InSeq(UnsafeMemoryFlag, options.java_opts)

C23_WitnessTwentyOne ==
    /\ pc = "assembled"
    /\ options.java_major_version = 21
    /\ ~InSeq(NativeAccessFlag, options.java_opts)
    /\ options.appcds_autogenerate

---------------------------------------------------------------------------
(* os_string_ext::OsSplitIter *)

\* the strings of tests::split_simple .. split_simple_multiple_split_bytes_in_a_row
MyPotato == <<"M", "y", " ", "p", "o", "t", "a", "t", "o">>
MyPotatoTrailing == <<"M", "y", " ", "p", "o", "t", "a", "t", "o", " ">>
MyPotatoLeading == <<" ", "M", "y", " ", "p", "o", "t", "a", "t", "o">>
MyPotatoRow == <<"M", "y", " ", " ", " ", "p", "o", "t", "a", "t", "o", " ">>

\* an OsSplitIter::next that tests `self.i > self.vec.len()`
OsNext_PastEnd(v, k, sep) ==
    IF k > Len(v) THEN [some |-> FALSE, item |-> <<>>, i |-> k]
    ELSE LET hits == {m \in k..(Len(v) - 1) : v[m + 1] = sep}
             end_index == IF hits = {} THEN Len(v)
                          ELSE CHOOSE m \in hits : \A h \in hits : m <= h
         IN  [some |-> TRUE, item |-> SubSeq(v, k + 1, end_index), i |-> end_index + 1]

\* OsSplitIter::next on (vec, i, separator): [some, item, i].  Indices are
\* 0-based as in the source; unit k of v is v[k + 1].
OsNext(v, k, sep) ==
    IF k >= Len(v) THEN [some |-> FALSE, item |-> <<>>, i |-> k]
    ELSE LET hits == {m \in k..(Len(v) - 1) : v[m + 1] = sep}
             end_index == IF hits = {} THEN Len(v)
                          ELSE CHOOSE m \in hits : \A h \in hits : m <= h
         IN  [some |-> TRUE, item |-> SubSeq(v, k + 1, end_index), i |-> end_index + 1]

OsSplitAlphabet == {"a", " ", "#"}
OsSeparators == {" ", "#"}

OsSplitInit ==
    /\ env = EmptyEnv(<<>>)
    /\ options = DefaultOptions
    /\ pos = 1
    /\ pc = "os_split"
    /\ err = ""
    /\ fs = {} /\ exe_path = None /\ dir = None /\ os = OsInit
    /\ vec = <<>> /\ i = 0 /\ items = <<>> /\ separator = ""

\* OsStringExt::split(&self, separator): a new iterator over the units
OsSplit ==
    /\ pc = "os_split"
    /\ \/ \E n \in 0..MaxLen : \E s \in [1..n -> OsSplitAlphabet] : vec' = s
       \/ vec' \in {MyPotato, MyPotatoTrailing, MyPotatoLeading, MyPotatoRow}
    /\ separator' \in OsSeparators
    /\ i' = 0
    /\ items' = <<>>
    /\ pc' = "os_iterate"
    /\ ParseVarsUnchanged /\ HomeVarsUnchanged

\* one call of next() that yields a field
OsIterSome ==
    /\ pc = "os_iterate"
    /\ OsNext(vec, i, separator).some
    /\ items' = Append(items, OsNext(vec, i, separator).item)
    /\ i' = OsNext(vec, i, separator).i
    /\ UNCHANGED <<vec, pc, separator>>
    /\ ParseVarsUnchanged /\ HomeVarsUnchanged

\* the call of next() that yields None
OsIterNone ==
    /\ pc = "os_iterate"
    /\ ~OsNext(vec, i, separator).some
    /\ pc' = "os_collected"
    /\ UNCHANGED <<vec, i, items, separator>>
    /\ ParseVarsUnchanged /\ HomeVarsUnchanged

OsSplitNext == OsSplit \/ OsIterSome \/ OsIterNone

\* split(separator) run to its end on every string of the bounds
SpecOsSplit == OsSplitInit /\ [][OsSplitNext]_vars

\* the fields joined with the separator
RECURSIVE JoinUnits(_, _)
JoinUnits(fields, sep) ==
    IF fields = <<>> THEN <<>>
    ELSE IF Len(fields) = 1 THEN fields[1]
    ELSE fields[1] \o <<sep>> \o JoinUnits(Tail(fields), sep)

\* the tests of os_string_ext.rs for split
OsSplitTestsPass ==
    pc = "os_collected" =>
        /\ (vec = MyPotato /\ separator = " ")
              => items = <<<<"M", "y">>, <<"p", "o", "t", "a", "t", "o">>>>
        /\ (vec = MyPotatoTrailing /\ separator = " ")
              => items = <<<<"M", "y">>, <<"p", "o", "t", "a", "t", "o">>>>
        /\ (vec = MyPotatoLeading /\ separator = " ")
              => items = <<<<>>, <<"M", "y">>, <<"p", "o", "t", "a", "t", "o">>>>
        /\ (vec = MyPotatoRow /\ separator = " ")
              => items = <<<<"M", "y">>, <<>>, <<>>, <<"p", "o", "t", "a", "t", "o">>>>
        /\ (vec = MyPotato /\ separator = "#") => items = <<MyPotato>>
        /\ vec = <<>> => items = <<>>

\* C24: split(separator) yields, in order, the fields between the
\* separators: no field holds the separator; the fields joined with the
\* separator are the string itself, or the string without its last unit
\* when the string ends in a separator (no extra empty field for it); a
\* string without the separator is yielded whole and the empty string
\* yields nothing.
C24_SplitFields ==
    pc = "os_collected" =>
        /\ \A k \in DOMAIN items : \A m \in DOMAIN items[k] : items[k][m] # separator
        /\ vec = <<>> => items = <<>>
        /\ vec # <<>> =>
             /\ items # <<>>
             /\ IF vec[Len(vec)] = separator
                THEN JoinUnits(items, separator) \o <<separator>> = vec
                ELSE JoinUnits(items, separator) = vec
        /\ (\A m \in DOMAIN vec : vec[m] # separator) /\ vec # <<>> => items = <<vec>>

C24_Witness ==
    /\ pc = "os_collected"
    /\ vec = <<" ", "a", " ", " ">>
    /\ separator = " "
    /\ items = <<<<>>, <<"a">>, <<>>>>

---------------------------------------------------------------------------
(* The command line of the assembled options *)

\* LaunchOptions::command_line
command_line(o) ==
    o.java_opts \o <<Str(Unwrap(o.boot_class))>> \o StrEach(o.program_args)

\* a occurs in b as a subsequence: all of a, in the order of a
RECURSIVE IsSubsequence(_, _)
IsSubsequence(a, b) ==
    IF a = <<>> THEN TRUE
    ELSE IF b = <<>> THEN FALSE
    ELSE IF Head(a) = Head(b) THEN IsSubsequence(Tail(a), Tail(b))
    ELSE IsSubsequence(a, Tail(b))

\* C25: every runtime flag the parse accumulated in java_args is in the
\* vector command_line() returns, before the boot class, in the order of
\* accumulation.
C25_RuntimeFlagsOnCommandLine ==
    pc = "assembled" =>
        LET line == command_line(options)
            boot == Len(options.java_opts) + 1
        IN  /\ line[boot] = Str(Unwrap(options.boot_class))
            /\ IsSubsequence(StrEach(options.java_args), SubSeq(line, 1, boot - 1))

\* what the code does with them: no flag of java_args is on the command line
C25_RuntimeFlagsDropped ==
    pc = "assembled" =>
        \A k \in DOMAIN options.java_args :
            ~InSeq(Str(options.java_args[k]), command_line(options))

\* the CDS logging flags prepare_options can push for an archive
CdsLogFlags(file) ==
    {"-Xlog:cds=off", "-Xlog:cds+dynamic=off",
     "-Xlog:cds=info:file=" \o Display(file),
     "-Xlog:cds+dynamic=info:file=" \o Display(file)}

\* C26: when --nocache was given as a directive, the assembled flags hold
\* no shared-archive flag and no CDS logging flag, whatever the probed
\* runtime supports.
C26_NoCacheSurvives ==
    (pc = "assembled" /\ InSeq(NoCache, Tail(env.args))) =>
        LET file == Unwrap(options.jruby_jsa_file)
        IN  /\ ArchiveFlags(options.java_opts, file) = <<>>
            /\ \A k \in DOMAIN options.java_opts :
                   options.java_opts[k] \notin CdsLogFlags(file)
            /\ ~options.use_jsa_file

\* what the code does: after the probe the cache is in use exactly when
\* the runtime has a server archive directory with an archive in it
C26_ProbeDecidesCache ==
    pc \in {"probed", "assembled"} =>
        /\ options.use_jsa_file = options.java_has_appcds
        /\ options.java_has_appcds =
               java_has_appcds(Unwrap(options.java_home))

\* --nocache on a runtime with the shared cache: the archive flags are there
C26_NoCacheOverwritten ==
    /\ pc = "assembled"
    /\ env.args = <<Argv0Bare, NoCache>>
    /\ options.use_jsa_file
    /\ InSeq(AutoCreateFlag, options.java_opts)
    /\ InSeq("-Xlog:cds=off", options.java_opts)

\* what the probe of this launch finds out about the shared class cache
RuntimeSupportsCache ==
    LET java == java_command(options, env)
    IN  /\ IsSome(java)
        /\ has_grandparent(Unwrap(java))
        /\ java_has_appcds(java_home_of(Unwrap(java)))

\* C27: on a runtime that supports the shared class cache, --cache sets
\* the regenerate request and the scan goes on; the launcher ends with
\* exit status 2 on --cache only when the runtime lacks the support.
C27_CacheOnSupportingRuntime ==
    /\ [][(Scanning /\ Tok = Cache /\ RuntimeSupportsCache)
            => /\ pc' = "scan"
               /\ options'.regenerate_jsa_file]_vars
    /\ [](pc = "exit2" => ~RuntimeSupportsCache)

\* what the code does: --cache as a directive always ends the launch with
\* exit status 2, since the capability is still its default when parse runs
C27_CacheAlwaysExits ==
    /\ [][(Scanning /\ Tok = Cache) => pc' = "exit2"]_vars
    /\ [](pc \in {"new", "parse", "scan", "parsed", "exit2"}
            => ~options.java_has_appcds /\ ~options.regenerate_jsa_file)
    /\ [](~options.regenerate_jsa_file)

\* --cache on a runtime with the shared cache ends in exit status 2
C27_ExitOnSupportingRuntime ==
    /\ pc = "exit2"
    /\ env.args = <<Argv0Bare, Cache>>
    /\ RuntimeSupportsCache

\* no entry of the sequence occurs twice
NoDuplicates(s) == \A a, b \in DOMAIN s : a # b => s[a] # s[b]

\* C28: after assembly no path occurs twice in the classpath, none twice
\* in the boot classpath, and none is in both: the archive chosen as boot
\* archive is not added again by the scan of lib.
C28_NoDuplicatePaths ==
    pc = "assembled" =>
        /\ NoDuplicates(options.classpath)
        /\ NoDuplicates(options.boot_classpath)
        /\ \A k \in DOMAIN options.boot_classpath :
               ~InSeq(options.boot_classpath[k], options.classpath)

\* what the code does: the scan of lib adds every archive of lib, the boot
\* archive as well
C28_ScanAddsEveryArchive ==
    pc = "assembled" =>
        /\ \A p \in LibJars : InSeq(Display(p), options.classpath)
        /\ \A k \in DOMAIN options.boot_classpath :
               InSeq(options.boot_classpath[k], options.classpath)

\* jruby.jar in the boot classpath and in the classpath
C28_BootArchiveTwice ==
    /\ pc = "assembled"
    /\ env.args = <<Argv0Bare>>
    /\ options.boot_classpath = <<Display(JrubyJar)>>
    /\ InSeq(Display(JrubyJar), options.classpath)

\* -Xnobootclasspath: jruby.jar twice in the classpath
C28_ClasspathTwice ==
    /\ pc = "assembled"
    /\ options.no_boot_classpath
    /\ Occurrences(Display(JrubyJar), options.classpath) = 2

\* C29: every launch that reaches the assembly has the modular flag set,
\* because the probe found <java home>/release; a boot classpath that is
\* not empty is emitted as --module-path= and the -Xbootclasspath/a: form
\* is never emitted.
C29_AlwaysModular ==
    /\ pc \in {"probed", "assembled"} =>
         /\ options.java_is_modular
         /\ exist_test(dir_builder(Unwrap(options.java_home), <<"release">>))
    /\ pc = "assembled" =>
         /\ options.boot_classpath # <<>> =>
                Occurrences("--module-path=" \o join_paths(options.boot_classpath),
                            options.java_opts) = 1
         /\ \A k \in DOMAIN options.java_opts :
                options.java_opts[k] \notin
                    {"-Xbootclasspath/a:" \o Display(JrubyJar),
                     "-Xbootclasspath/a:" \o Display(JrubyCompleteJar),
                     "-Xbootclasspath/a:" \o join_paths(options.boot_classpath)}

\* a runtime of major version 1 without lib/modules
C29_Witness ==
    /\ pc = "assembled"
    /\ options.java_major_version = 1
    /\ ~exist_test(dir_builder(Unwrap(options.java_home), <<"lib", "modules">>))
    /\ options.java_is_modular
    /\ options.boot_classpath = <<Display(JrubyJar)>>
    /\ InSeq("--module-path=" \o Display(JrubyJar), options.java_opts)

\* C30: every -Xcp:p entry is on the assembled classpath, in command-line
\* order and before the archives of lib, as every -Xcp:a entry is on it,
\* in order, after the explicit-or-ambient entries.
C30_ClasspathBefore ==
    pc = "assembled" =>
        LET cp     == options.classpath
            before == StrEach(options.classpath_before)
            after  == StrEach(options.classpath_after)
        IN  /\ Len(before) <= Len(cp)
            /\ SubSeq(cp, 1, Len(before)) = before
            /\ after # <<>> =>
                 SubSeq(cp, Len(cp) - Len(after), Len(cp) - 1) = after

\* what the code does with -Xcp:p: it stores the entry and never reads it
C30_BeforeEntriesDropped ==
    pc = "assembled" =>
        /\ \A k \in DOMAIN options.classpath_before :
               ~InSeq(Str(options.classpath_before[k]), options.classpath)
        /\ options.classpath_after # <<>> =>
               SubSeq(options.classpath,
                      Len(options.classpath) - Len(options.classpath_after),
                      Len(options.classpath) - 1)
                   = StrEach(options.classpath_after)

\* -Xcp:p x.jar, and no x.jar on the classpath
C30_BeforeEntryMissing ==
    /\ pc = "assembled"
    /\ options.classpath_before = <<XJar>>
    /\ ~InSeq("x.jar", options.classpath)
    /\ ~InSeq("-Djava.class.path=x.jar;", options.java_opts)

===========================================================================
